---- MODULE Spec2Model ----
(***************************************************************************)
(* Model of the CRM AI Studio orchestration pipeline: Planner -> Policy    *)
(* Engine (Tool Gate + SQL policy) -> Tool Runtime -> Verifier -> Answer   *)
(* Generator, as sequenced by Pipeline.stream and forwarded to the client  *)
(* by the chat stream endpoint.                                            *)
(***************************************************************************)
EXTENDS Integers, Sequences, FiniteSets, TLC

(***************************************************************************)
(* Bounds of the model.                                                    *)
(***************************************************************************)
MaxActions == 2
MaxTokens == 1
MaxConnRows == 1
PoolSize == 2
MaxQueries == 2
MaxSseEvents == 3

(***************************************************************************)
(* Program constants.                                                      *)
(***************************************************************************)
DefaultMaxRows == 200
DefaultPlannerMaxRetries == 2
DefaultMaxToolCallsPerPlan == 10
DispatchDefaultMaxRows == 200
StatementTimeoutMs == 30000

Null == [t |-> "null"]

(***************************************************************************)
(* SQL text.  A SQL string is a sequence of lexical tokens; a token is a   *)
(* word (keyword, identifier or punctuation, with its spelling) or an      *)
(* integer literal (with its value).                                       *)
(***************************************************************************)
W(s) == [k |-> "word", s |-> s, n |-> 0]
N(n) == [k |-> "int", s |-> "", n |-> n]

IsWord(tok, s) == tok.k = "word" /\ tok.s = s

\* String.prototype.toUpperCase / the regex flag i, on the spellings the
\* model uses.
Upper(s) ==
  CASE s = "limit" -> "LIMIT"
    [] s = "select" -> "SELECT"
    [] s = "from" -> "FROM"
    [] OTHER -> s

IsKw(tok, kw) == tok.k = "word" /\ Upper(tok.s) = kw

SqlPlain == <<W("SELECT"), W("*"), W("FROM"), W("users")>>
SqlSemi == <<W("SELECT"), W("*"), W("FROM"), W("users"), W(";")>>
SqlLimitSmall == <<W("SELECT"), W("*"), W("FROM"), W("users"), W("LIMIT"), N(10)>>
SqlLimitBig == <<W("SELECT"), W("*"), W("FROM"), W("users"), W("limit"), N(500)>>
SqlLimitExpr ==
  <<W("SELECT"), W("*"), W("FROM"), W("users"), W("LIMIT"), N(500), W("+"), N(500)>>
SqlSubLimit ==
  <<W("SELECT"), W("*"), W("FROM"), W("("), W("SELECT"), W("*"), W("FROM"),
    W("orders"), W("LIMIT"), N(10), W(")"), W("s"), W("LIMIT"), N(500)>>
SqlDelete == <<W("DELETE"), W("FROM"), W("users")>>
SqlMulti ==
  <<W("SELECT"), W("*"), W("FROM"), W("users"), W(";"),
    W("SELECT"), W("*"), W("FROM"), W("orders")>>
SqlGarbage == <<W("NOT"), W("VALID"), W("SQL")>>

WS == W(" ")
SqlPadded == <<WS, W("SELECT"), W("*"), W("FROM"), W("users"), W(";"), WS>>
SqlSpaceSemi == <<W("SELECT"), W("*"), W("FROM"), W("users"), WS, W(";")>>
SqlSecrets == <<W("SELECT"), W("*"), W("FROM"), W("secrets")>>
SqlSleep == <<W("SELECT"), W("PG_SLEEP"), W("FROM"), W("users")>>
SqlDblinkColumn == <<W("SELECT"), W("dblink"), W("FROM"), W("users")>>
SqlDblinkId == <<W("SELECT"), W("DBLINK_ID"), W("FROM"), W("users")>>
SqlSleepMulti ==
  <<W("SELECT"), W("pg_sleep"), W("FROM"), W("users"), W(";"), W("SELECT"), W("*"),
    W("FROM"), W("users")>>
SqlSubNoLimit ==
  <<W("SELECT"), W("*"), W("FROM"), W("("), W("SELECT"), W("*"), W("FROM"),
    W("orders"), W("LIMIT"), N(10), W(")"), W("s")>>
SqlSubSecrets ==
  <<W("SELECT"), W("*"), W("FROM"), W("("), W("SELECT"), W("*"), W("FROM"),
    W("secrets"), W(")"), W("s")>>
SqlWhereSub ==
  <<W("SELECT"), W("*"), W("FROM"), W("users"), W("WHERE"), W("id"), W("IN"),
    W("("), W("SELECT"), W("user_id"), W("FROM"), W("secrets"), W(")")>>

(***************************************************************************)
(* String helpers of the JavaScript runtime, on token sequences.           *)
(***************************************************************************)
RECURSIVE TrimStart(_)
TrimStart(s) == IF s # <<>> /\ Head(s) = WS THEN TrimStart(Tail(s)) ELSE s

RECURSIVE TrimEnd(_)
TrimEnd(s) ==
  IF s # <<>> /\ s[Len(s)] = WS THEN TrimEnd(SubSeq(s, 1, Len(s) - 1)) ELSE s

\* String.prototype.trim
Trim(s) == TrimEnd(TrimStart(s))

\* String.prototype.endsWith(';')
EndsWithSemi(s) == s # <<>> /\ IsWord(s[Len(s)], ";")

(***************************************************************************)
(* The SQL parser (pgsql-ast-parser) on the token grammar of the model:    *)
(* statements separated by ';', each SELECT ... FROM <table | (subquery)>  *)
(* [LIMIT <expr>] or a non-SELECT statement.  The AST has the shape the    *)
(* policy reads (ParsedSelect): type, from[], limit.                       *)
(***************************************************************************)
NoWs(s) == SelectSeq(s, LAMBDA tok : tok # WS)

\* Parenthesis depth in front of position i.
Depth(s, i) ==
  Cardinality({j \in 1..(i - 1) : IsWord(s[j], "(")})
    - Cardinality({j \in 1..(i - 1) : IsWord(s[j], ")")})

\* The least element of S, or `none` when S is empty.
First(S, none) == IF S = {} THEN none ELSE CHOOSE x \in S : \A y \in S : x <= y

\* Positions of keyword kw outside parentheses and in front of another token.
TopLevel(s, kw) == {i \in 1..(Len(s) - 1) : IsKw(s[i], kw) /\ Depth(s, i) = 0}

TopLevelSemis(s) == {i \in 1..Len(s) : IsWord(s[i], ";") /\ Depth(s, i) = 0}

\* The statements of the text: the non-empty segments between top-level ';'.
RECURSIVE SplitStatements(_)
SplitAt(s, cut) ==
  (IF cut = 1 THEN <<>> ELSE <<SubSeq(s, 1, cut - 1)>>)
    \o SplitStatements(SubSeq(s, cut + 1, Len(s)))

SplitStatements(s) ==
  IF s = <<>> THEN <<>> ELSE SplitAt(s, First(TopLevelSemis(s), Len(s) + 1))

StatementKeywords == {"SELECT", "INSERT", "UPDATE", "DELETE", "DROP"}

StatementType(seg) ==
  CASE IsKw(seg[1], "SELECT") -> "select"
    [] IsKw(seg[1], "INSERT") -> "insert"
    [] IsKw(seg[1], "UPDATE") -> "update"
    [] IsKw(seg[1], "DELETE") -> "delete"
    [] OTHER -> "drop table"

\* The LIMIT node of a SELECT whose top-level LIMIT keyword is at position i
\* (0: none): an integer literal or another expression.
LimitNodeAt(seg, i) ==
  IF i = 0 THEN Null
  ELSE IF seg[i + 1].k = "int" /\ i + 1 = Len(seg)
  THEN [type |-> "integer", value |-> seg[i + 1].n]
  ELSE [type |-> "binary"]

LimitNode(seg) == LimitNodeAt(seg, First(TopLevel(seg, "LIMIT"), 0))

\* The position of the parenthesis closing the one at position open.
CloseParen(seg, open) ==
  First({j \in (open + 1)..Len(seg) :
           IsWord(seg[j], ")") /\ Depth(seg, j) = Depth(seg, open) + 1}, Len(seg) + 1)

RECURSIVE ParseStatement(_)

\* The FROM list of a SELECT whose top-level FROM keyword is at position i
\* (0: none): a base table or a parenthesised subquery.
FromItems(seg, i) ==
  IF i = 0 THEN <<>>
  ELSE IF IsWord(seg[i + 1], "(")
  THEN <<[type |-> "statement",
          statement |-> ParseStatement(SubSeq(seg, i + 2, CloseParen(seg, i + 1) - 1))]>>
  ELSE <<[type |-> "table", name |-> [name |-> seg[i + 1].s]]>>

ParseStatement(seg) ==
  IF IsKw(seg[1], "SELECT")
  THEN [type |-> "select", from |-> FromItems(seg, First(TopLevel(seg, "FROM"), 0)),
        limit |-> LimitNode(seg)]
  ELSE [type |-> StatementType(seg)]

NotStatements(segs) ==
  \/ segs = <<>>
  \/ \E i \in 1..Len(segs) :
       ~(segs[i][1].k = "word" /\ Upper(segs[i][1].s) \in StatementKeywords)

\* parse(sql) throws on text that is no statement list (empty text included).
ParseThrows(sql) == NotStatements(SplitStatements(NoWs(sql)))

ParseAll(segs) == [i \in 1..Len(segs) |-> ParseStatement(segs[i])]

parse(sql) == ParseAll(SplitStatements(NoWs(sql)))

(***************************************************************************)
(* SqlPolicy                                                               *)
(***************************************************************************)
Err(msg, arg) == [msg |-> msg, arg |-> arg]

Includes(list, x) == \E i \in 1..Len(list) : list[i] = x

\* String.prototype.toLowerCase on the spellings the model uses.
Lower(s) ==
  CASE s = "PG_SLEEP" -> "pg_sleep"
    [] s = "Pg_Sleep" -> "pg_sleep"
    [] s = "DBLINK" -> "dblink"
    [] s = "DBLINK_ID" -> "dblink_id"
    [] OTHER -> s

\* String.prototype.includes on the lower-case spellings the model uses:
\* `part` is a substring of `word`.
WordIncludes(word, part) ==
  \/ word = part
  \/ word = "dblink_id" /\ part = "dblink"

\* Variant of TextIncludes: fn is a whole word of the text.
TextIncludesWord(sql, fn) ==
  \E i \in 1..Len(sql) : sql[i].k = "word" /\ Lower(sql[i].s) = Lower(fn)

\* sqlLower.includes(fn.toLowerCase()): fn occurs in the lower-cased text.
TextIncludes(sql, fn) ==
  \E i \in 1..Len(sql) : sql[i].k = "word" /\ WordIncludes(Lower(sql[i].s), Lower(fn))

\* SqlPolicy.extractTables, from the i-th FROM item on: depth-first over
\* FROM, deduplicated.
RECURSIVE extractTables(_, _, _)
extractTables(stmt, i, tables) ==
  IF i > Len(stmt.from) THEN tables
  ELSE IF stmt.from[i].type = "table"
  THEN extractTables(stmt, i + 1,
                     IF stmt.from[i].name.name # ""
                          /\ ~Includes(tables, stmt.from[i].name.name)
                     THEN Append(tables, stmt.from[i].name.name) ELSE tables)
  ELSE IF stmt.from[i].type = "statement" /\ stmt.from[i].statement.type = "select"
  THEN extractTables(stmt, i + 1, extractTables(stmt.from[i].statement, 1, tables))
  ELSE extractTables(stmt, i + 1, tables)

\* SqlPolicy.extractLimitValue: the literal's value, or Null.
extractLimitValue(limit) ==
  IF limit = Null THEN Null
  ELSE IF limit.type = "integer" THEN [t |-> "number", v |-> limit.value]
  ELSE Null

\* The text with the two tokens at i, i + 1 replaced by LIMIT newLimit
\* (i = 0: no match, the text is returned as it is).
ReplaceAt(sql, i, newLimit) ==
  IF i = 0 THEN sql
  ELSE SubSeq(sql, 1, i - 1) \o <<W("LIMIT"), N(newLimit)>> \o SubSeq(sql, i + 2, Len(sql))

\* SqlPolicy.replaceLimitInSql: sql.replace(/\bLIMIT\s+\d+/i, `LIMIT ${newLimit}`),
\* which rewrites the first textual match only.
replaceLimitInSql(sql, newLimit) ==
  ReplaceAt(sql,
            First({i \in 1..(Len(sql) - 1) : IsKw(sql[i], "LIMIT") /\ sql[i + 1].k = "int"}, 0),
            newLimit)

\* DEFAULT_FORBIDDEN_FUNCTIONS
DefaultForbiddenFunctions ==
  <<"pg_sleep", "dblink", "lo_import", "lo_export", "pg_read_file", "pg_write_file",
    "pg_ls_dir", "pg_stat_file", "pg_terminate_backend", "pg_cancel_backend",
    "set_config", "current_setting">>

\* SqlPolicy constructor: each option the caller left out (??) gets its
\* default; an option given as the empty list is kept.
SqlPolicyConstructor(options) ==
  [maxRows |-> IF "maxRows" \in DOMAIN options THEN options.maxRows ELSE DefaultMaxRows,
   allowedTables |-> IF "allowedTables" \in DOMAIN options THEN options.allowedTables
                     ELSE <<>>,
   allowedColumns |-> IF "allowedColumns" \in DOMAIN options THEN options.allowedColumns
                      ELSE <<>>,
   forbiddenFunctions |-> IF "forbiddenFunctions" \in DOMAIN options
                          THEN options.forbiddenFunctions ELSE DefaultForbiddenFunctions]

NotAllowed(cfg, referencedTables) ==
  SelectSeq(referencedTables, LAMBDA t : ~Includes(cfg.allowedTables, t))

Errors(msg, args) == [i \in 1..Len(args) |-> Err(msg, args[i])]

\* Step 5 of validate: one error per referenced table outside the allowlist.
AllowlistErrors(cfg, referencedTables) ==
  IF Len(cfg.allowedTables) > 0
  THEN Errors("Table is not in the allowlist", NotAllowed(cfg, referencedTables))
  ELSE <<>>

\* Step 6 of validate: one error per forbidden function found in the text.
ForbiddenErrors(cfg, sql) ==
  Errors("Forbidden function detected",
         SelectSeq(cfg.forbiddenFunctions, LAMBDA fn : TextIncludes(sql, fn)))

MinOf(a, b) == IF a < b THEN a ELSE b

\* Variant of StripSemi: the trailing semicolon is kept.
StripSemiKeep(trimmed) == trimmed

\* Step 7 of validate: the trimmed text without its trailing semicolon.
StripSemi(trimmed) ==
  IF EndsWithSemi(trimmed) THEN Trim(SubSeq(trimmed, 1, Len(trimmed) - 1)) ELSE trimmed

\* Step 7 of validate: <<sanitizedSql, effectiveLimit>> for the stripped
\* text, the AST's limit node and the value extractLimitValue found in it.
ApplyLimit(cfg, stripped, limit, existingLimit) ==
  IF limit # Null
  THEN IF existingLimit # Null
       THEN <<replaceLimitInSql(stripped, MinOf(existingLimit.v, cfg.maxRows)),
              MinOf(existingLimit.v, cfg.maxRows)>>
       ELSE <<stripped, cfg.maxRows>>
  ELSE <<stripped \o <<W("LIMIT"), N(cfg.maxRows)>>, cfg.maxRows>>

ForceLimit(cfg, sql, selectStmt) ==
  ApplyLimit(cfg, StripSemi(Trim(sql)), selectStmt.limit,
             extractLimitValue(selectStmt.limit))

\* The early returns of validate (steps 2 and 3).
Invalid(sql, errors) ==
  [threw |-> FALSE, valid |-> FALSE, sanitizedSql |-> sql, effectiveLimit |-> 0,
   referencedTables |-> <<>>, errors |-> errors]

\* The two returns at the end of validate.
SelectResult(errors, forced, referencedTables) ==
  [threw |-> FALSE, valid |-> errors = <<>>, sanitizedSql |-> forced[1],
   effectiveLimit |-> forced[2], referencedTables |-> referencedTables,
   errors |-> errors]

\* Steps 5 to 7 of validate.
CheckSelect(cfg, sql, selectStmt, referencedTables) ==
  SelectResult(AllowlistErrors(cfg, referencedTables) \o ForbiddenErrors(cfg, sql),
               ForceLimit(cfg, sql, selectStmt), referencedTables)

\* Variant of CheckStatements: statements after the first are ignored.
CheckFirstStatement(cfg, sql, statements) ==
  IF Len(statements) = 0
  THEN Invalid(sql, <<Err("Empty SQL query.", "")>>)
  ELSE IF statements[1].type # "select"
  THEN Invalid(sql, <<Err("Only SELECT queries are allowed. Received:", statements[1].type)>>)
  ELSE CheckSelect(cfg, sql, statements[1], extractTables(statements[1], 1, <<>>))

\* Steps 2 to 4 of validate.
CheckStatements(cfg, sql, statements) ==
  IF Len(statements) = 0
  THEN Invalid(sql, <<Err("Empty SQL query.", "")>>)
  ELSE IF Len(statements) > 1
  THEN Invalid(sql, <<Err("Multiple statements are not allowed. Only single SELECT queries are permitted.", "")>>)
  ELSE IF statements[1].type # "select"
  THEN Invalid(sql, <<Err("Only SELECT queries are allowed. Received:", statements[1].type)>>)
  ELSE CheckSelect(cfg, sql, statements[1], extractTables(statements[1], 1, <<>>))

\* SqlPolicy.validate: the validation result, or the SqlSafetyError thrown
\* when the text does not parse.
validate(cfg, sql) ==
  IF ParseThrows(sql) THEN [threw |-> TRUE, code |-> "SQL_SAFETY_ERROR"]
  ELSE CheckStatements(cfg, sql, parse(sql))

(***************************************************************************)
(* ToolGate                                                                *)
(***************************************************************************)
\* ToolGate.validateActions: TRUE when it throws PolicyBlockedError.
validateActionsThrows(cfg, actions) ==
  \/ Len(actions) > cfg.maxToolCallsPerPlan
  \/ /\ Len(cfg.allowedTools) > 0
     /\ \E i \in 1..Len(actions) : ~Includes(cfg.allowedTools, actions[i].tool)

(***************************************************************************)
(* PolicyEngine                                                            *)
(***************************************************************************)
JStr(v) == [t |-> "string", v |-> v]
JNum(v) == [t |-> "number", v |-> v]

Blocked(action, errors) ==
  [threw |-> FALSE, action |-> action, approved |-> FALSE, sanitizedArgs |-> Null,
   errors |-> errors]

ApprovedWith(action, sanitizedArgs) ==
  [threw |-> FALSE, action |-> action, approved |-> TRUE,
   sanitizedArgs |-> sanitizedArgs, errors |-> <<>>]

\* validateAction for a sql.query action, given the outcome of
\* SqlPolicy.validate: a thrown SqlSafetyError passes through.
SqlDecision(action, result) ==
  IF result.threw THEN result
  ELSE IF ~result.valid THEN Blocked(action, result.errors)
  ELSE ApprovedWith(action, [action.args EXCEPT !.sql = JStr(result.sanitizedSql)])

\* PolicyEngine.validateAction: the PolicyResult of one action, or the
\* SqlSafetyError that SqlPolicy.validate throws through it.
validateAction(cfg, action) ==
  IF action.tool = "sql.query"
  THEN IF action.args.sql.t # "string"
       THEN Blocked(action, <<Err("sql.query requires a sql argument of type string.", "")>>)
       ELSE SqlDecision(action, validate(cfg.sqlPolicy, action.args.sql.v))
  ELSE ApprovedWith(action, action.args)

\* validatePlan once every action is validated: the first error thrown, or
\* the PolicyResults.
PlanOutcome(results) ==
  IF \E i \in 1..Len(results) : results[i].threw
  THEN [threw |-> TRUE, code |-> "SQL_SAFETY_ERROR"]
  ELSE [threw |-> FALSE, results |-> results]

\* Variant of validatePlan: the actions are validated before the tool gate
\* is consulted.
validatePlanActionsFirst(cfg, p) ==
  IF PlanOutcome([i \in 1..Len(p.actions) |-> validateAction(cfg, p.actions[i])]).threw
  THEN [threw |-> TRUE, code |-> "SQL_SAFETY_ERROR"]
  ELSE IF validateActionsThrows(cfg.toolGate, p.actions)
  THEN [threw |-> TRUE, code |-> "POLICY_BLOCKED"]
  ELSE PlanOutcome([i \in 1..Len(p.actions) |-> validateAction(cfg, p.actions[i])])

\* PolicyEngine.validatePlan: the PolicyResults in Plan order, or the error
\* thrown by the tool gate or by the validation of an action.
validatePlan(cfg, p) ==
  IF validateActionsThrows(cfg.toolGate, p.actions)
  THEN [threw |-> TRUE, code |-> "POLICY_BLOCKED"]
  ELSE PlanOutcome([i \in 1..Len(p.actions) |-> validateAction(cfg, p.actions[i])])

(***************************************************************************)
(* Tool Runtime and Verifier records                                       *)
(***************************************************************************)
\* executeOne, the ToolCall as created at dispatch.
NewToolCall(id, action, args) ==
  [id |-> id, toolName |-> action.tool, toolArgs |-> args, status |-> "running",
   errorMessage |-> Null]

\* Variant of SuccessResult: the ToolResult points at itself.
SuccessResultOwnId(toolCall, resultId, result) ==
  [toolCall |-> [toolCall EXCEPT !.status = "success"],
   toolResult |-> [id |-> resultId, toolCallId |-> resultId, data |-> result.data,
                   rowCount |-> result.rowCount]]

\* executeOne, try branch: the call succeeded with `result` of dispatch.
SuccessResult(toolCall, resultId, result) ==
  [toolCall |-> [toolCall EXCEPT !.status = "success"],
   toolResult |-> [id |-> resultId, toolCallId |-> toolCall.id, data |-> result.data,
                   rowCount |-> result.rowCount]]

\* executeOne, catch branch: dispatch or the timeout rejected with `message`.
ErrorResult(toolCall, message) ==
  [toolCall |-> [toolCall EXCEPT !.status = "error", !.errorMessage = JStr(message)],
   toolResult |-> Null]

\* dispatch, case 'sql.query': what is handed to SqlConnector.query.
SqlQueryParams(args) ==
  [sql |-> args.sql.v,
   maxRows |-> IF "maxRows" \in DOMAIN args THEN args.maxRows ELSE DispatchDefaultMaxRows]

\* dispatch, case 'sql.query': the value built from the connector's result.
SqlDispatchResult(rows) ==
  [data |-> [columns |-> "columns", rows |-> rows, rowCount |-> rows,
             checksum |-> "checksum", truncated |-> FALSE],
   rowCount |-> rows]

\* Variant of RagDispatchResult: data is an object without keys.
RagDispatchResultNoKeys(chunks) ==
  [data |-> [k \in {} |-> Null], rowCount |-> chunks]

\* dispatch, case 'rag.search': the value built from the connector's result.
RagDispatchResult(chunks) ==
  [data |-> [chunks |-> chunks], rowCount |-> chunks]

\* dispatch: the message of the ToolExecutionError thrown before any
\* connector is called, or Null when a connector is called.
DispatchError(connectors, toolName) ==
  CASE toolName = "sql.query" ->
         IF connectors.sql THEN Null ELSE JStr("SQL connector not configured.")
    [] toolName = "rag.search" ->
         IF connectors.rag THEN Null ELSE JStr("RAG connector not configured.")
    [] OTHER -> JStr("Unknown tool")

IsSuccessful(r) == r.toolCall.status = "success" /\ r.toolResult # Null
IsFailed(r) == r.toolCall.status = "error" \/ r.toolResult = Null

\* Verifier.verify, hasData: rowCount is optional in a ToolResult; a missing
\* rowCount is the absence of the field.
HasRows(tr) == "rowCount" \in DOMAIN tr /\ tr.rowCount > 0

\* Variant of DataCheck: only rows support the check.
DataCheckRowsOnly(r) ==
  LET tr == r.toolResult
      hasData == HasRows(tr)
  IN  [claim |-> [text |-> "Tool returned data", tool |-> r.toolCall.toolName],
       supported |-> hasData,
       evidenceId |-> tr.id, evidenceType |-> "tool_result",
       reason |-> IF hasData THEN [text |-> "row(s) returned", n |-> tr.rowCount]
                  ELSE [text |-> "No rows returned"]]

\* Verifier.verify, check 2: the check of one successful result.
DataCheck(r) ==
  LET tr == r.toolResult
      hasData == HasRows(tr)
  IN  [claim |-> [text |-> "Tool returned data", tool |-> r.toolCall.toolName],
       supported |-> hasData \/ Cardinality(DOMAIN tr.data) > 0,
       evidenceId |-> tr.id, evidenceType |-> "tool_result",
       reason |-> IF hasData THEN [text |-> "row(s) returned", n |-> tr.rowCount]
                  ELSE [text |-> "No rows returned"]]

\* Verifier.verify, check 3: the check of one failed result.
FailedCheck(r) ==
  [claim |-> [text |-> "Tool executed successfully", tool |-> r.toolCall.toolName],
   supported |-> FALSE,
   reason |-> IF r.toolCall.errorMessage # Null THEN r.toolCall.errorMessage
              ELSE JStr("Unknown error")]

\* Verifier.verify
verify(results) ==
  LET successfulResults == SelectSeq(results, IsSuccessful)
      failedResults == SelectSeq(results, IsFailed)
      coverage ==
        [claim |-> [text |-> "At least one tool execution succeeded"],
         supported |-> Len(successfulResults) > 0,
         reason |-> IF Len(successfulResults) > 0
                    THEN [text |-> "tool(s) succeeded", n |-> Len(successfulResults)]
                    ELSE [text |-> "All tool(s) failed", n |-> Len(results)]]
      checks == <<coverage>>
                  \o [i \in 1..Len(successfulResults) |-> DataCheck(successfulResults[i])]
                  \o [i \in 1..Len(failedResults) |-> FailedCheck(failedResults[i])]
      noData == SelectSeq(successfulResults, LAMBDA r : ~HasRows(r.toolResult))
      suggestedActions ==
        [i \in 1..Len(noData) |->
           [text |-> "returned no data", tool |-> noData[i].toolCall.toolName]]
          \o [i \in 1..Len(failedResults) |->
                [text |-> "failed", tool |-> failedResults[i].toolCall.toolName]]
      approved ==
        /\ Len(successfulResults) > 0
        /\ \A i \in 1..Len(checks) :
             checks[i].supported \/ "evidenceType" \notin DOMAIN checks[i]
  IN  [approved |-> approved, checks |-> checks,
       summary |-> IF approved THEN Null
                   ELSE [text |-> "Cannot produce a grounded answer.",
                         failed |-> Len(failedResults), noData |-> Len(noData)],
       suggestedActions |-> suggestedActions]

\* Variant of verifyOrThrow: an empty result list is blocked as well.
verifyOrThrowOnEmpty(results) ==
  IF \A i \in 1..Len(results) : IsFailed(results[i])
  THEN [threw |-> TRUE, code |-> "VERIFICATION_ERROR",
        message |-> IF verify(results).summary # Null THEN verify(results).summary
                    ELSE [text |-> "Evidence insufficient"]]
  ELSE [threw |-> FALSE, report |-> verify(results)]

\* Verifier.verifyOrThrow: the report of verify, or the VerificationError
\* thrown when every tool failed.
verifyOrThrow(results) ==
  IF (\A i \in 1..Len(results) : IsFailed(results[i])) /\ Len(results) > 0
  THEN [threw |-> TRUE, code |-> "VERIFICATION_ERROR",
        message |-> IF verify(results).summary # Null THEN verify(results).summary
                    ELSE [text |-> "Evidence insufficient"]]
  ELSE [threw |-> FALSE, report |-> verify(results)]

(***************************************************************************)
(* Inputs: pipeline configurations, planner outputs, answers.              *)
(***************************************************************************)
DefaultAllowedTools == <<"sql.query", "rag.search">>

\* PipelineConfig values the model runs under: no connector, the RAG
\* connector alone, or both, with the default tool allowlist, one
\* configuration whose allowlist is the empty list, and one whose maxRows
\* admits no row.
PipelineConfigs ==
  {[sql |-> FALSE, rag |-> FALSE], [sql |-> FALSE, rag |-> TRUE],
   [sql |-> TRUE, rag |-> TRUE], [sql |-> FALSE, rag |-> TRUE, allowedTools |-> <<>>],
   [sql |-> TRUE, rag |-> FALSE, maxRows |-> 0]}

\* Pipeline constructor: the PolicyEngine configuration built from its options.
PolicyEngineConfig(options) ==
  [sqlPolicy |->
     SqlPolicyConstructor(
       [maxRows |-> IF "maxRows" \in DOMAIN options THEN options.maxRows ELSE DefaultMaxRows,
        allowedTables |-> IF "allowedTables" \in DOMAIN options
                          THEN options.allowedTables ELSE <<>>,
        allowedColumns |-> <<>>, forbiddenFunctions |-> <<>>]),
   toolGate |-> [allowedTools |-> IF "allowedTools" \in DOMAIN options
                                  THEN options.allowedTools ELSE DefaultAllowedTools,
                 maxToolCallsPerPlan |-> DefaultMaxToolCallsPerPlan]]

SqlAction(sql) == [tool |-> "sql.query", args |-> [sql |-> JStr(sql)]]

ActionPool ==
  { SqlAction(SqlPlain), SqlAction(SqlDelete), SqlAction(SqlGarbage),
    [tool |-> "sql.query", args |-> [sql |-> JNum(42)]],
    [tool |-> "rag.search", args |-> [query |-> JStr(<<W("pricing")>>)]],
    [tool |-> "shell.exec", args |-> [cmd |-> JStr(<<W("ls")>>)]] }

\* The action lists of the plans: every list of up to MaxActions actions of
\* the pool, and a query whose LIMIT is an expression, alone or followed by
\* a search.
ActionLists ==
  UNION {[1..n -> ActionPool] : n \in 1..MaxActions}
    \cup {<<SqlAction(SqlSleep)>>, <<SqlAction(SqlLimitExpr)>>,
          <<SqlAction(SqlLimitExpr), [tool |-> "rag.search", args |-> [query |-> JStr(<<W("pricing")>>)]]>>}

\* What LlmAdapter.generatePlan may return.
RawPlans ==
  [intent : {"answer the question"}, actions : ActionLists \cup {<<>>},
   needsClarification : {FALSE}, clarificationQuestion : {Null}]
    \cup [intent : {"clarify"}, actions : {<<SqlAction(SqlPlain)>>, <<>>},
          needsClarification : {TRUE},
          clarificationQuestion : {Null, JStr("Which workspace?")}]
    \cup [intent : {""}, actions : {<<SqlAction(SqlPlain)>>},
          needsClarification : {FALSE}, clarificationQuestion : {Null}]

\* PlanSchema.safeParse(raw).success
PlanSchemaAccepts(raw) ==
  /\ raw.intent # ""
  /\ Len(raw.actions) >= 1
  /\ \A i \in 1..Len(raw.actions) : raw.actions[i].tool # ""

\* this.policyEngine.validatePlan(plan) of a Pipeline built from `c`, for
\* every configuration and every plan the planner can return: validatePlan
\* is a function of the two, tabulated here.
PolicyOutcomes ==
  {[config |-> c, plan |-> p, outcome |-> validatePlan(PolicyEngineConfig(c), p)] :
     c \in PipelineConfigs, p \in {raw \in RawPlans : PlanSchemaAccepts(raw)}}

\* policyResults = this.policyEngine.validatePlan(plan), or the error thrown.
StreamValidatePlan(c, p) ==
  {row.outcome : row \in {r \in PolicyOutcomes : r.config = c /\ r.plan = p}}

Citation(id) == [index |-> 1, evidenceId |-> id, evidenceType |-> "tool_result"]

\* What LlmAdapter.generateAnswer may return for `toolResults`: an empty
\* content, or a text citing nothing, a result of the run, or an id no
\* result carries (ids of the run start at 1).
LlmAnswers(toolResults) ==
  [content : {"", "grounded text"}, citations : {<<>>}]
    \cup [content : {"grounded text"},
          citations : {<<Citation(0)>>}
                        \cup {<<Citation(toolResults[i].id)>> : i \in 1..Len(toolResults)}]

(***************************************************************************)
(* State                                                                   *)
(***************************************************************************)
VARIABLES
  chatStream,        \* the refs of useChatStream in the browser, and where sendMessage stands
  llmCalls,          \* the calls of LlmAdapter.streamAnswer and generateAnswer, in order
  pool,              \* PostgresConnector: the settings of the pool's connections
  config,            \* the PipelineConfig of the run
  pc,                \* position of the run in Pipeline.stream
  events,            \* the events sent to the client, in order
  attempt,           \* Planner.plan: the loop counter
  plan,              \* the validated Plan
  policyResults,     \* PolicyEngine.validatePlan's results
  approvedActions,   \* the approved PolicyResults, in Plan order
  idx,               \* index of the approved action being executed
  toolCall,          \* the ToolCall of the connector call awaited, or Null
  executionResults,  \* the ToolExecutionResults so far
  calls,             \* the connector calls made, in order
  verifierReport,    \* the report of Verifier.verify
  tokens,            \* number of tokens streamed
  nextId,            \* source of fresh ids (crypto.randomUUID)
  cancelled,         \* the client has cancelled the response stream
  audit,             \* the database of the endpoint: is it down, the writes attempted
  call               \* a component operation called on its own: arguments, result

\* A connection of the pg.Pool as the server created it: the session
\* settings have their defaults (statement_timeout 0: no timeout) and the
\* connection is idle.
IdleConnection ==
  [statement_timeout |-> 0, read_only |-> "default", held |-> FALSE,
   acquired |-> 0, released |-> 0]
IdlePool == [c \in 1..PoolSize |-> IdleConnection]

Undefined == [t |-> "undefined"]

\* useChatStream: the refs as they are created (and as reset() leaves them).
\* `at` is where sendMessage stands and `handled` the event types handleEvent
\* was called with since sendMessage was called.
IdleChat ==
  [status |-> "idle", streamedContent |-> <<>>,
   evidence |-> [plan |-> Undefined, toolCalls |-> <<>>, verification |-> Undefined,
                 answer |-> Undefined],
   error |-> Null, threadId |-> Null, at |-> "idle", handled |-> <<>>]

vars == <<chatStream, llmCalls, pool, audit, call, cancelled, config, pc, events, attempt, plan, policyResults, approvedActions, idx,
          toolCall, executionResults, calls, verifierReport, tokens, nextId>>

Ev(tag, data) == [event |-> tag, data |-> data]
Status(stage) == Ev("status", [stage |-> stage])
ErrorEv(code, stage) == Ev("error", [message |-> code, stage |-> stage])

\* send(event, data) of the stream endpoint: controller.enqueue delivers the
\* event, or throws once the client has cancelled the response stream.
Yield(e) == events' = IF cancelled THEN events ELSE Append(events, e)

\* Where the run goes on after a send: at `label`, or nowhere once enqueue
\* threw (the loop of the endpoint is left, the send of its catch block
\* throws again, the generator is returned).
Goto(label) == pc' = IF cancelled THEN "aborted" ELSE label

\* The INSERT the endpoint awaits after it sent a tool_call_end or an answer
\* event: the write attempted on `table`, with its outcome.
Insert(table) == [table |-> table, at |-> Len(events) + 1, ok |-> ~audit.down]

\* Variant of SendAndPersist: a failed INSERT ends the loop of the endpoint.
SendAndPersistOrAbort(table, e, label) ==
  /\ Yield(e)
  /\ audit' = IF cancelled THEN audit
              ELSE [audit EXCEPT !.writes = Append(@, Insert(table))]
  /\ pc' = IF cancelled \/ audit.down THEN "aborted" ELSE label

\* The loop body of the endpoint for a tool_call_end or an answer event: the
\* event is sent, the INSERT is awaited inside its own try block, whose
\* catch is empty, and the loop goes on.
SendAndPersist(table, e, label) ==
  /\ Yield(e)
  /\ audit' = IF cancelled THEN audit
              ELSE [audit EXCEPT !.writes = Append(@, Insert(table))]
  /\ Goto(label)

Init ==
  /\ chatStream = IdleChat
  /\ llmCalls = <<>>
  /\ pool = IdlePool
  /\ config \in PipelineConfigs
  /\ pc = "start"
  /\ events = <<>>
  /\ attempt = 0
  /\ plan = Null
  /\ policyResults = <<>>
  /\ approvedActions = <<>>
  /\ idx = 1
  /\ toolCall = Null
  /\ executionResults = <<>>
  /\ calls = <<>>
  /\ verifierReport = Null
  /\ tokens = 0
  /\ nextId = 1
  /\ cancelled = FALSE
  /\ audit = [down |-> FALSE, writes |-> <<>>]
  /\ call = Null

(***************************************************************************)
(* The chat stream endpoint: the first event sent to the client.           *)
(***************************************************************************)
SendMeta ==
  /\ pc = "start"
  /\ Yield(Ev("meta", [threadId |-> "thread", messageId |-> "message"]))
  /\ Goto("planning")
  /\ UNCHANGED <<chatStream, llmCalls, pool, audit, call, cancelled, config, attempt, plan, policyResults, approvedActions, idx, toolCall,
                 executionResults, calls, verifierReport, tokens, nextId>>

(***************************************************************************)
(* Pipeline.stream, one action per yield: the code run since the previous  *)
(* yield (or await) and the event it yields.                               *)
(***************************************************************************)
YieldStatusPlanning ==
  /\ pc = "planning"
  /\ Yield(Status("planning"))
  /\ Goto("planner")
  /\ UNCHANGED <<chatStream, llmCalls, pool, audit, call, cancelled, config, attempt, plan, policyResults, approvedActions, idx, toolCall,
                 executionResults, calls, verifierReport, tokens, nextId>>

\* Planner.plan: maxRetries as the Pipeline constructor sets it.
PlannerMaxRetries == DefaultPlannerMaxRetries

\* Variant of PlannerAttemptFails: the loop bound is one too large.
PlannerAttemptFailsOnceMore ==
  /\ pc = "planner"
  /\ attempt <= PlannerMaxRetries + 1
  /\ attempt' = attempt + 1
  /\ UNCHANGED <<chatStream, llmCalls, pool, audit, call, cancelled, config, pc, events, plan, policyResults, approvedActions, idx, toolCall,
                 executionResults, calls, verifierReport, tokens, nextId>>

\* Planner.plan, an attempt whose output the schema rejects, or whose call
\* to the adapter throws.
PlannerAttemptFails ==
  /\ pc = "planner"
  /\ attempt <= PlannerMaxRetries
  /\ \/ \E raw \in RawPlans : ~PlanSchemaAccepts(raw)   \* invalid output
     \/ TRUE                                            \* generatePlan throws
  /\ attempt' = attempt + 1
  /\ UNCHANGED <<chatStream, llmCalls, pool, audit, call, cancelled, config, pc, events, plan, policyResults, approvedActions, idx, toolCall,
                 executionResults, calls, verifierReport, tokens, nextId>>

\* Planner.plan returns the first schema-valid output; stream yields it.
PlannerReturns ==
  /\ pc = "planner"
  /\ attempt <= PlannerMaxRetries
  /\ \E raw \in RawPlans :
       /\ PlanSchemaAccepts(raw)
       /\ plan' = raw
       /\ Yield(Ev("plan", raw))
  /\ Goto("planned")
  /\ UNCHANGED <<chatStream, llmCalls, pool, audit, call, cancelled, config, attempt, policyResults, approvedActions, idx, toolCall,
                 executionResults, calls, verifierReport, tokens, nextId>>

\* Variant of PlannerThrows: the catch block returns after the error event
\* without yielding done.
PlannerThrowsNoDone ==
  /\ pc = "planner"
  /\ attempt > PlannerMaxRetries
  /\ Yield(ErrorEv("PLANNER_ERROR", "planning"))
  /\ Goto("closed")
  /\ UNCHANGED <<chatStream, llmCalls, pool, audit, call, cancelled, config, attempt, plan, policyResults, approvedActions, idx, toolCall,
                 executionResults, calls, verifierReport, tokens, nextId>>

\* Planner.plan throws PlannerError once the attempts are used up.
PlannerThrows ==
  /\ pc = "planner"
  /\ attempt > PlannerMaxRetries
  /\ Yield(ErrorEv("PLANNER_ERROR", "planning"))
  /\ Goto("end")
  /\ UNCHANGED <<chatStream, llmCalls, pool, audit, call, cancelled, config, attempt, plan, policyResults, approvedActions, idx, toolCall,
                 executionResults, calls, verifierReport, tokens, nextId>>

\* Pipeline.run, the clarification short-circuit: the PipelineResult.
RunClarification(p) ==
  [plan |-> p, toolCalls |-> <<>>, toolResults |-> <<>>,
   verifierReport |-> [approved |-> FALSE, checks |-> <<>>,
                       summary |-> p.clarificationQuestion],
   answer |-> [content |-> IF p.clarificationQuestion # Null
                           THEN p.clarificationQuestion.v
                           ELSE "Could you clarify your question?",
               citations |-> <<>>]]

\* Variant of ClarificationAnswer: the intent of the plan is the content.
ClarificationAnswerIntent(p) == [content |-> p.intent, citations |-> <<>>]

\* The clarification short-circuit.
ClarificationAnswer(p) ==
  [content |-> IF p.clarificationQuestion # Null THEN p.clarificationQuestion.v
               ELSE "Could you clarify your question?",
   citations |-> <<>>]

YieldClarification ==
  /\ pc = "planned"
  /\ plan.needsClarification
  /\ SendAndPersist("messages", Ev("answer", ClarificationAnswer(plan)), "end")
  /\ UNCHANGED <<chatStream, llmCalls, pool, call, cancelled, config, attempt, plan, policyResults, approvedActions, idx, toolCall,
                 executionResults, calls, verifierReport, tokens, nextId>>

YieldStatusPolicy ==
  /\ pc = "planned"
  /\ ~plan.needsClarification
  /\ Yield(Status("policy"))
  /\ Goto("policy")
  /\ UNCHANGED <<chatStream, llmCalls, pool, audit, call, cancelled, config, attempt, plan, policyResults, approvedActions, idx, toolCall,
                 executionResults, calls, verifierReport, tokens, nextId>>

\* Variant of Approved: the filter is dropped.
ApprovedAll(results) == results

\* policyResults.filter((r) => r.approved)
Approved(results) == SelectSeq(results, LAMBDA r : r.approved)

\* validatePlan throws: the tool gate or an unparseable SQL action.
PolicyThrows ==
  /\ pc = "policy"
  /\ \E outcome \in StreamValidatePlan(config, plan) :
         /\ outcome.threw
         /\ Yield(ErrorEv(outcome.code, "policy"))
  /\ Goto("end")
  /\ UNCHANGED <<chatStream, llmCalls, pool, audit, call, cancelled, config, attempt, plan, policyResults, approvedActions, idx, toolCall,
                 executionResults, calls, verifierReport, tokens, nextId>>

\* No PolicyResult is approved.
PolicyAllBlocked ==
  /\ pc = "policy"
  /\ \E outcome \in StreamValidatePlan(config, plan) :
         /\ ~outcome.threw
         /\ Len(Approved(outcome.results)) = 0
         /\ policyResults' = outcome.results
         /\ Yield(ErrorEv("Policy blocked", "policy"))
  /\ Goto("end")
  /\ UNCHANGED <<chatStream, llmCalls, pool, audit, call, cancelled, config, attempt, plan, approvedActions, idx, toolCall,
                 executionResults, calls, verifierReport, tokens, nextId>>

YieldStatusToolsRunning ==
  /\ pc = "policy"
  /\ \E outcome \in StreamValidatePlan(config, plan) :
         /\ ~outcome.threw
         /\ Len(Approved(outcome.results)) > 0
         /\ policyResults' = outcome.results
         /\ approvedActions' = Approved(outcome.results)
  /\ Yield(Status("toolsRunning"))
  /\ Goto("loop")
  /\ UNCHANGED <<chatStream, llmCalls, pool, audit, call, cancelled, config, attempt, plan, idx, toolCall,
                 executionResults, calls, verifierReport, tokens, nextId>>

\* Variant of DispatchArgs: the arguments as planned.
DispatchArgsRaw(policyResult) == policyResult.action.args

\* The arguments executeActions hands to executeOne, and stream shows in
\* tool_call_start: sanitizedArgs ?? action.args.
DispatchArgs(policyResult) ==
  IF policyResult.sanitizedArgs # Null THEN policyResult.sanitizedArgs
  ELSE policyResult.action.args

YieldToolCallStart ==
  /\ pc = "loop"
  /\ idx <= Len(approvedActions)
  /\ Yield(Ev("tool_call_start",
              [tool |-> approvedActions[idx].action.tool,
               args |-> DispatchArgs(approvedActions[idx])]))
  /\ Goto("exec")
  /\ UNCHANGED <<chatStream, llmCalls, pool, audit, call, cancelled, config, attempt, plan, policyResults, approvedActions, idx, toolCall,
                 executionResults, calls, verifierReport, tokens, nextId>>

\* The tool_call_end event of one ToolExecutionResult.
ToolCallEnd(result) ==
  Ev("tool_call_end",
     [tool |-> result.toolCall.toolName, status |-> result.toolCall.status,
      rowCount |-> IF result.toolResult # Null THEN result.toolResult.rowCount ELSE 0,
      error |-> result.toolCall.errorMessage])

\* Variant of AfterTool: a failed call ends the loop.
AfterToolAbort(result) ==
  IF result.toolCall.status = "error" THEN Len(approvedActions) + 1 ELSE idx + 1

\* The loops of executeActions and of stream go on with the next action
\* whatever the result of this one.
AfterTool(result) == idx + 1

\* Variant of FinishTool: tool_call_end is yielded for successful calls only.
FinishToolEndOnSuccess(result) ==
  /\ executionResults' = Append(executionResults, result)
  /\ IF result.toolCall.status = "success"
     THEN SendAndPersist("tool_calls", ToolCallEnd(result), "loop")
     ELSE events' = events /\ audit' = audit /\ Goto("loop")
  /\ idx' = AfterTool(result)
  /\ toolCall' = Null

\* The loop body after executeActions returned `result` for action idx.
FinishTool(result) ==
  /\ executionResults' = Append(executionResults, result)
  /\ SendAndPersist("tool_calls", ToolCallEnd(result), "loop")
  /\ idx' = AfterTool(result)
  /\ toolCall' = Null

\* executeOne: dispatch throws before calling a connector (no connector
\* configured, unknown tool).
DispatchThrows ==
  /\ pc = "exec"
  /\ LET policyResult == approvedActions[idx]
         message == DispatchError(config, policyResult.action.tool)
     IN  /\ message # Null
         /\ FinishTool(ErrorResult(NewToolCall(nextId, policyResult.action,
                                               DispatchArgs(policyResult)),
                                   message.v))
  /\ nextId' = nextId + 1
  /\ UNCHANGED <<chatStream, llmCalls, pool, call, cancelled, config, attempt, plan, policyResults, approvedActions,
                 calls, verifierReport, tokens>>

\* The record of one connector call: the tool, the arguments dispatch got,
\* for sql.query the parameters passed to SqlConnector.query, and whether
\* the promise the connector returned has settled.
ConnectorCall(tc) ==
  [tool |-> tc.toolName, args |-> tc.toolArgs, toolCallId |-> tc.id,
   params |-> IF tc.toolName = "sql.query" THEN SqlQueryParams(tc.toolArgs) ELSE Null,
   settled |-> FALSE]

\* The promise of the connector call awaited has settled.
Settle == calls' = [calls EXCEPT ![Len(calls)].settled = TRUE]

\* executeOne: dispatch calls the connector and awaits it against the timeout.
DispatchConnector ==
  /\ pc = "exec"
  /\ LET policyResult == approvedActions[idx]
         tc == NewToolCall(nextId, policyResult.action, DispatchArgs(policyResult))
     IN  /\ DispatchError(config, policyResult.action.tool) = Null
         /\ toolCall' = tc
         /\ calls' = Append(calls, ConnectorCall(tc))
  /\ nextId' = nextId + 1
  /\ pc' = "await"
  /\ UNCHANGED <<chatStream, llmCalls, pool, audit, call, cancelled, config, events, attempt, plan, policyResults, approvedActions, idx,
                 executionResults, verifierReport, tokens>>

\* The connector call resolves first.
ConnectorResolves ==
  /\ pc = "await"
  /\ Settle
  /\ \E n \in 0..MaxConnRows :
       FinishTool(SuccessResult(toolCall, nextId,
                                IF toolCall.toolName = "sql.query"
                                THEN SqlDispatchResult(n) ELSE RagDispatchResult(n)))
  /\ nextId' = nextId + 1
  /\ UNCHANGED <<chatStream, llmCalls, pool, call, cancelled, config, attempt, plan, policyResults, approvedActions,
                 verifierReport, tokens>>

\* The connector call rejects first.
ConnectorRejects ==
  /\ pc = "await"
  /\ Settle
  /\ FinishTool(ErrorResult(toolCall, "connector error"))
  /\ UNCHANGED <<chatStream, llmCalls, pool, call, cancelled, config, attempt, plan, policyResults, approvedActions,
                 verifierReport, tokens, nextId>>

\* Variant of ToolTimeout: executeWithTimeout awaits the connector call
\* alone, no timer is raced against it.
ToolTimeoutNever ==
  /\ pc = "await"
  /\ FALSE
  /\ UNCHANGED vars

\* Variant of ToolTimeout: a timeout ends the loop over the actions.
ToolTimeoutEndsLoop ==
  /\ pc = "await"
  /\ executionResults' = Append(executionResults, ErrorResult(toolCall, "Tool timed out"))
  /\ SendAndPersist("tool_calls", ToolCallEnd(ErrorResult(toolCall, "Tool timed out")), "loop")
  /\ idx' = Len(approvedActions) + 1
  /\ toolCall' = Null
  /\ UNCHANGED <<chatStream, llmCalls, pool, call, cancelled, config, attempt, plan, policyResults, approvedActions,
                 calls, verifierReport, tokens, nextId>>

\* The timeout of executeWithTimeout rejects first.
ToolTimeout ==
  /\ pc = "await"
  /\ FinishTool(ErrorResult(toolCall, "Tool timed out"))
  /\ UNCHANGED <<chatStream, llmCalls, pool, call, cancelled, config, attempt, plan, policyResults, approvedActions,
                 calls, verifierReport, tokens, nextId>>

\* Variant of YieldStatusVerifying: the status event names the next stage.
YieldStatusVerifyingWrongStage ==
  /\ pc = "loop"
  /\ idx > Len(approvedActions)
  /\ Yield(Status("answering"))
  /\ Goto("verify")
  /\ UNCHANGED <<chatStream, llmCalls, pool, audit, call, cancelled, config, attempt, plan, policyResults, approvedActions, idx, toolCall,
                 executionResults, calls, verifierReport, tokens, nextId>>

YieldStatusVerifying ==
  /\ pc = "loop"
  /\ idx > Len(approvedActions)
  /\ Yield(Status("verifying"))
  /\ Goto("verify")
  /\ UNCHANGED <<chatStream, llmCalls, pool, audit, call, cancelled, config, attempt, plan, policyResults, approvedActions, idx, toolCall,
                 executionResults, calls, verifierReport, tokens, nextId>>

\* Stage 4 of stream: the report the run continues with.
StreamVerify(results) == verify(results)

YieldVerification ==
  /\ pc = "verify"
  /\ verifierReport' = StreamVerify(executionResults)
  /\ Yield(Ev("verification", verifierReport'))
  /\ Goto("answering")
  /\ UNCHANGED <<chatStream, llmCalls, pool, audit, call, cancelled, config, attempt, plan, policyResults, approvedActions, idx, toolCall,
                 executionResults, calls, tokens, nextId>>

YieldStatusAnswering ==
  /\ pc = "answering"
  /\ Yield(Status("answering"))
  /\ Goto("tokens")
  /\ UNCHANGED <<chatStream, llmCalls, pool, audit, call, cancelled, config, attempt, plan, policyResults, approvedActions, idx, toolCall,
                 executionResults, calls, verifierReport, tokens, nextId>>

\* Variant of ToolResults: the ToolResults in reverse order.
ToolResultsReversed(results) ==
  LET withResult == SelectSeq(results, LAMBDA r : r.toolResult # Null)
  IN  [i \in 1..Len(withResult) |-> withResult[Len(withResult) + 1 - i].toolResult]

\* The ToolResults handed to the Answer Generator.
ToolResults(results) ==
  LET withResult == SelectSeq(results, LAMBDA r : r.toolResult # Null)
  IN  [i \in 1..Len(withResult) |-> withResult[i].toolResult]

\* The request AnswerGenerator.stream and generate hand to the adapter.
LlmCall(method) ==
  [method |-> method, toolResults |-> ToolResults(executionResults),
   verifierReport |-> verifierReport]

\* llmCalls once the for await loop of stage 5 has called
\* AnswerGenerator.stream, which it does when the run goes on after
\* status(answering).
Streaming == IF llmCalls = <<>> THEN <<LlmCall("streamAnswer")>> ELSE llmCalls

\* AnswerGenerator.stream: one more token of LlmAdapter.streamAnswer.
YieldToken ==
  /\ pc = "tokens"
  /\ tokens < MaxTokens
  /\ Yield(Ev("token", [token |-> "word"]))
  /\ Goto("tokens")
  /\ tokens' = tokens + 1
  /\ llmCalls' = Streaming
  /\ UNCHANGED <<chatStream, pool, audit, call, cancelled, config, attempt, plan, policyResults, approvedActions, idx, toolCall,
                 executionResults, calls, verifierReport, nextId>>

\* AnswerGenerator.generate: the Answers it returns for what the adapter
\* may return.
generate(toolResults) == LlmAnswers(toolResults)

\* The token stream ended and generate returned.
YieldAnswer ==
  /\ pc = "tokens"
  /\ \E answer \in generate(ToolResults(executionResults)) :
       SendAndPersist("messages", Ev("answer", answer), "end")
  /\ llmCalls' = Append(Streaming, LlmCall("generateAnswer"))
  /\ UNCHANGED <<chatStream, pool, call, cancelled, config, attempt, plan, policyResults, approvedActions, idx, toolCall,
                 executionResults, calls, verifierReport, tokens, nextId>>

\* streamAnswer throws, or it ends and generateAnswer throws.
AnswerStageThrows ==
  /\ pc = "tokens"
  /\ Yield(ErrorEv("adapter error", "answering"))
  /\ Goto("end")
  /\ llmCalls' \in {Streaming, Append(Streaming, LlmCall("generateAnswer"))}
  /\ UNCHANGED <<chatStream, pool, audit, call, cancelled, config, attempt, plan, policyResults, approvedActions, idx, toolCall,
                 executionResults, calls, verifierReport, tokens, nextId>>

\* The last yield of every path of stream.
YieldDone ==
  /\ pc = "end"
  /\ Yield(Ev("done", [empty |-> TRUE]))
  /\ Goto("closed")
  /\ UNCHANGED <<chatStream, llmCalls, pool, audit, call, cancelled, config, attempt, plan, policyResults, approvedActions, idx, toolCall,
                 executionResults, calls, verifierReport, tokens, nextId>>

Next ==
  \/ SendMeta
  \/ YieldStatusPlanning
  \/ PlannerAttemptFails
  \/ PlannerReturns
  \/ PlannerThrows
  \/ YieldClarification
  \/ YieldStatusPolicy
  \/ PolicyThrows
  \/ PolicyAllBlocked
  \/ YieldStatusToolsRunning
  \/ YieldToolCallStart
  \/ DispatchThrows
  \/ DispatchConnector
  \/ ConnectorResolves
  \/ ConnectorRejects
  \/ ToolTimeout
  \/ YieldStatusVerifying
  \/ YieldVerification
  \/ YieldStatusAnswering
  \/ YieldToken
  \/ YieldAnswer
  \/ AnswerStageThrows
  \/ YieldDone

Spec == Init /\ [][Next]_vars

(***************************************************************************)
(* Cancellation: the client closes the connection while the response       *)
(* stream is open. The endpoint registers no cancel callback and hands the *)
(* pipeline no signal: the run learns of it when its next send throws.     *)
(***************************************************************************)
Cancel ==
  /\ pc \notin {"start", "closed", "aborted"}
  /\ ~cancelled
  /\ cancelled' = TRUE
  /\ UNCHANGED <<chatStream, llmCalls, pool, audit, call, config, pc, events, attempt, plan, policyResults, approvedActions, idx,
                 toolCall, executionResults, calls, verifierReport, tokens, nextId>>

CancelNext ==
  \/ Next
  \/ Cancel

CancelSpec == Init /\ [][CancelNext]_vars

(***************************************************************************)
(* Progress: the consumer of stream keeps pulling events, every call of    *)
(* the LlmAdapter returns or throws, and the timer of executeWithTimeout   *)
(* fires.  Nothing is assumed of the connectors: a connector call may stay *)
(* pending for ever.                                                       *)
(***************************************************************************)
\* The connector call awaited settles.
ConnectorSettles ==
  \/ ConnectorResolves
  \/ ConnectorRejects

\* A step of the run that does not depend on a connector settling.
Advance == Next /\ ~ConnectorSettles

LiveSpec == Init /\ [][Next]_vars /\ WF_vars(Advance)

(***************************************************************************)
(* Persistence: the database the endpoint writes tool calls and messages   *)
(* to goes down while the response stream is open; every INSERT fails      *)
(* from then on.                                                           *)
(***************************************************************************)
DatabaseFails ==
  /\ pc \notin {"start", "closed", "aborted"}
  /\ ~audit.down
  /\ audit' = [audit EXCEPT !.down = TRUE]
  /\ UNCHANGED <<chatStream, llmCalls, pool, call, cancelled, config, pc, events, attempt, plan, policyResults,
                 approvedActions, idx, toolCall, executionResults, calls, verifierReport,
                 tokens, nextId>>

AuditNext ==
  \/ Next
  \/ DatabaseFails

AuditSpec == Init /\ [][AuditNext]_vars

(***************************************************************************)
(* A second run: once a run of stream has returned, the same Pipeline is   *)
(* asked to stream again for the same context.  The first run's plan,      *)
(* connector outputs and events are kept in `call`; crypto.randomUUID goes *)
(* on handing out ids it has not handed out before.                        *)
(***************************************************************************)
\* What the connectors gave back, call by call: the outcome, the error
\* message, the data.
Outcomes(results) ==
  [i \in 1..Len(results) |->
     [status |-> results[i].toolCall.status,
      error |-> results[i].toolCall.errorMessage,
      data |-> IF results[i].toolResult # Null THEN results[i].toolResult.data ELSE Null]]

\* The runs that are run again: one approved query that returned rows, and
\* an answer.
Replayed ==
  /\ plan # Null
  /\ plan.actions = <<SqlAction(SqlPlain)>>
  /\ "maxRows" \notin DOMAIN config
  /\ Len(executionResults) = 1
  /\ executionResults[1].toolResult # Null
  /\ executionResults[1].toolResult.rowCount > 0
  /\ \E i \in 1..Len(events) : events[i].event = "answer"

Replay ==
  /\ pc = "closed"
  /\ call = Null
  /\ Replayed
  /\ call' = [op |-> "stream", args |-> [config |-> config, plan |-> plan], done |-> TRUE,
              out |-> [events |-> events, outcomes |-> Outcomes(executionResults)]]
  /\ pc' = "start"
  /\ events' = <<>>
  /\ attempt' = 0
  /\ plan' = Null
  /\ policyResults' = <<>>
  /\ approvedActions' = <<>>
  /\ idx' = 1
  /\ toolCall' = Null
  /\ executionResults' = <<>>
  /\ calls' = <<>>
  /\ verifierReport' = Null
  /\ tokens' = 0
  /\ llmCalls' = <<>>
  /\ UNCHANGED <<chatStream, pool, audit, cancelled, config, nextId>>

ReplayNext ==
  \/ Next
  \/ Replay

ReplaySpec == Init /\ [][ReplayNext]_vars

(***************************************************************************)
(* Pipeline.run: once a run of stream has returned, run is called on the   *)
(* same Pipeline for the same context, with the planner, the connectors    *)
(* and the adapter behaving as they did for stream.  What run did is kept  *)
(* in `call`.                                                              *)
(***************************************************************************)
\* ToolRuntime.executeOne within run, for the action whose connector
\* behaved as `outcome` tells: acc holds the results and the connector calls
\* so far and the next id of crypto.randomUUID.
RunExecuteOne(cfg, policyResult, outcome, acc) ==
  IF DispatchError(cfg, policyResult.action.tool) # Null
  THEN [results |-> Append(acc.results,
                           ErrorResult(NewToolCall(acc.id, policyResult.action,
                                                   DispatchArgs(policyResult)),
                                       DispatchError(cfg, policyResult.action.tool).v)),
        calls |-> acc.calls, id |-> acc.id + 1]
  ELSE IF outcome.toolResult # Null
  THEN [results |-> Append(acc.results,
                           SuccessResult(NewToolCall(acc.id, policyResult.action,
                                                     DispatchArgs(policyResult)),
                                         acc.id + 1,
                                         [data |-> outcome.toolResult.data,
                                          rowCount |-> outcome.toolResult.rowCount])),
        calls |-> Append(acc.calls,
                         ConnectorCall(NewToolCall(acc.id, policyResult.action,
                                                   DispatchArgs(policyResult)))),
        id |-> acc.id + 2]
  ELSE [results |-> Append(acc.results,
                           ErrorResult(NewToolCall(acc.id, policyResult.action,
                                                   DispatchArgs(policyResult)),
                                       outcome.toolCall.errorMessage.v)),
        calls |-> Append(acc.calls,
                         ConnectorCall(NewToolCall(acc.id, policyResult.action,
                                                   DispatchArgs(policyResult)))),
        id |-> acc.id + 1]

\* ToolRuntime.executeActions within run: the approved actions, one after
\* the other, from the i-th on.
RECURSIVE RunExecuteActions(_, _, _, _, _)
RunExecuteActions(cfg, approved, outcomes, i, acc) ==
  IF i > Len(approved) THEN acc
  ELSE RunExecuteActions(cfg, approved, outcomes, i + 1,
                         RunExecuteOne(cfg, approved[i], outcomes[i], acc))

\* What a call of run did: it threw `code`, or it returned `result`; the
\* connector calls it made, the results of its tool calls and the request
\* it handed to LlmAdapter.generateAnswer.
RunThrew(code, exec, requests) ==
  [threw |-> TRUE, code |-> code, result |-> Null, calls |-> exec.calls,
   executionResults |-> exec.results, llmCalls |-> requests]
RunReturned(result, exec, requests) ==
  [threw |-> FALSE, code |-> Null, result |-> result, calls |-> exec.calls,
   executionResults |-> exec.results, llmCalls |-> requests]
NothingExecuted(id) == [results |-> <<>>, calls |-> <<>>, id |-> id]

\* Pipeline.run, all actions blocked: the PipelineResult.
RunBlocked(p, results) ==
  [plan |-> p, toolCalls |-> <<>>, toolResults |-> <<>>,
   verifierReport |-> [approved |-> FALSE, checks |-> <<>>,
                       summary |-> [text |-> "Policy blocked"]],
   answer |-> [content |-> "Your query was blocked by the safety policy",
               citations |-> <<>>]]

\* Pipeline.run, stages 4 and 5: verify, then generate; answer is what
\* LlmAdapter.generateAnswer returns, Null when it throws.
RunAnswer(p, exec, answer) ==
  IF answer = Null
  THEN RunThrew("adapter error", exec,
                <<[method |-> "generateAnswer", toolResults |-> ToolResults(exec.results),
                   verifierReport |-> verify(exec.results)]>>)
  ELSE RunReturned([plan |-> p,
                    toolCalls |-> [i \in 1..Len(exec.results) |-> exec.results[i].toolCall],
                    toolResults |-> ToolResults(exec.results),
                    verifierReport |-> verify(exec.results),
                    answer |-> answer],
                   exec,
                   <<[method |-> "generateAnswer", toolResults |-> ToolResults(exec.results),
                      verifierReport |-> verify(exec.results)]>>)

\* Pipeline.run, stages 2 to 5, for the outcome of validatePlan.
RunPolicy(cfg, p, outcome, outcomes, answer, id) ==
  IF outcome.threw THEN RunThrew(outcome.code, NothingExecuted(id), <<>>)
  ELSE IF Len(Approved(outcome.results)) = 0
  THEN RunReturned(RunBlocked(p, outcome.results), NothingExecuted(id), <<>>)
  ELSE RunAnswer(p, RunExecuteActions(cfg, Approved(outcome.results), outcomes, 1,
                                      NothingExecuted(id)),
                 answer)

\* Pipeline.run: p is what Planner.plan returned (Null: it threw).
run(cfg, p, outcomes, answer, id) ==
  IF p = Null THEN RunThrew("PLANNER_ERROR", NothingExecuted(id), <<>>)
  ELSE IF p.needsClarification
  THEN RunReturned(RunClarification(p), NothingExecuted(id), <<>>)
  ELSE RunPolicy(cfg, p, validatePlan(PolicyEngineConfig(cfg), p), outcomes, answer, id)

\* What generateAnswer gave stream: the Answer of its answer event, Null
\* when the answer stage threw or was not reached.
AdapterAnswer ==
  IF plan # Null /\ ~plan.needsClarification /\ events[Len(events) - 1].event = "answer"
  THEN events[Len(events) - 1].data ELSE Null

Run ==
  /\ pc = "closed"
  /\ call = Null
  /\ call' = [op |-> "run", args |-> [config |-> config], done |-> TRUE,
              out |-> run(config, plan, executionResults, AdapterAnswer, nextId)]
  /\ UNCHANGED <<chatStream, llmCalls, pool, audit, cancelled, config, pc, events, attempt, plan,
                 policyResults, approvedActions, idx, toolCall, executionResults, calls,
                 verifierReport, tokens, nextId>>

RunNext ==
  \/ Next
  \/ Run

RunSpec == Init /\ [][RunNext]_vars

(***************************************************************************)
(* The components called on their own: SqlPolicy.validate,                 *)
(* ToolGate.validateActions, PolicyEngine.validatePlan, Verifier.verify    *)
(* and Verifier.verifyOrThrow, each applied once to its arguments.         *)
(***************************************************************************)
TestMaxRows == 100

SqlLimit(n) == <<W("SELECT"), W("*"), W("FROM"), W("users"), W("LIMIT"), N(n)>>

\* The SQL texts validate is called with.
SqlSamples ==
  { SqlPlain, SqlSemi, SqlPadded, SqlLimitSmall, SqlLimitBig, SqlLimitExpr, SqlSubLimit,
    SqlDelete, SqlMulti, SqlGarbage, SqlSecrets, SqlSleep, SqlSpaceSemi, SqlSubNoLimit,
    SqlSubSecrets, SqlWhereSub, SqlDblinkColumn, SqlDblinkId, SqlSleepMulti, <<>> }
    \cup {SqlLimit(n) : n \in {0, TestMaxRows, TestMaxRows + 1, DefaultMaxRows,
                                DefaultMaxRows + 1}}
    \cup {SqlLimit(n) \o <<W(";")>> : n \in {0, DefaultMaxRows + 1}}

\* The SqlPolicyConfig of the Pipeline's defaults and the one of the
\* policy's test suite.
SqlPolicyConfigs ==
  { PolicyEngineConfig([sql |-> TRUE, rag |-> TRUE]).sqlPolicy,
    SqlPolicyConstructor([maxRows |-> TestMaxRows]),
    SqlPolicyConstructor(
      [maxRows |-> TestMaxRows, allowedTables |-> <<"users", "orders", "products">>,
       allowedColumns |-> <<>>, forbiddenFunctions |-> <<"pg_sleep", "dblink">>]) }

\* ToolGateConfig values: the defaults, a permissive gate (empty
\* allowlist), and gates with one tool or one call allowed.
ToolGateConfigs ==
  [allowedTools : {DefaultAllowedTools, <<>>, <<"sql.query">>},
   maxToolCallsPerPlan : {1, DefaultMaxToolCallsPerPlan}]

\* A successful result whose ToolResult carries `data` and no rowCount.
ResultWithoutRowCount(tc, resultId, data) ==
  [toolCall |-> [tc EXCEPT !.status = "success"],
   toolResult |-> [id |-> resultId, toolCallId |-> tc.id, data |-> data]]

\* A result whose ToolCall has a status other than success and error
\* (ToolCallStatus: pending, running, success, error, blocked) and which
\* carries a ToolResult.
ResultWithStatus(tc, status, resultId, result) ==
  [toolCall |-> [tc EXCEPT !.status = status],
   toolResult |-> [id |-> resultId, toolCallId |-> tc.id, data |-> result.data,
                   rowCount |-> result.rowCount]]

\* ToolExecutionResults a caller may hand to the Verifier.
ResultPool ==
  { ResultWithStatus(NewToolCall(10, SqlAction(SqlPlain), [sql |-> JStr(SqlPlain)]),
                     "blocked", 11, SqlDispatchResult(1)) } \cup
  { ResultWithoutRowCount(NewToolCall(6, [tool |-> "rag.search"],
                                      [query |-> JStr(<<W("pricing")>>)]), 7,
                          [chunks |-> 1]),
    ResultWithoutRowCount(NewToolCall(8, SqlAction(SqlPlain), [sql |-> JStr(SqlPlain)]), 9,
                          [k \in {} |-> 0]) } \cup
  { SuccessResult(NewToolCall(1, SqlAction(SqlPlain), [sql |-> JStr(SqlPlain)]), 2,
                  SqlDispatchResult(1)),
    SuccessResult(NewToolCall(1, SqlAction(SqlPlain), [sql |-> JStr(SqlPlain)]), 2,
                  SqlDispatchResult(0)),
    SuccessResult(NewToolCall(3, [tool |-> "rag.search"], [query |-> JStr(<<W("pricing")>>)]), 4,
                  [data |-> [k \in {} |-> 0], rowCount |-> 0]),
    ErrorResult(NewToolCall(5, [tool |-> "rag.search"], [query |-> JStr(<<W("pricing")>>)]),
                "Tool timed out") }

ResultLists == UNION {[1..n -> ResultPool] : n \in 0..MaxActions}

Pending(op, args) == [op |-> op, args |-> args, done |-> FALSE, out |-> Null]

UnitCalls ==
  {Pending("validate", a) : a \in [cfg : SqlPolicyConfigs, sql : SqlSamples]}
    \cup {Pending("validateActions", a) : a \in [cfg : ToolGateConfigs, actions : ActionLists]}
    \cup {Pending("validatePlan", a) :
             a \in [cfg : {PolicyEngineConfig(c) : c \in PipelineConfigs},
                    plan : {p \in RawPlans : PlanSchemaAccepts(p)}]}
    \cup {Pending("safeParse", a) : a \in [raw : RawPlans]}
    \cup {Pending("verify", a) : a \in [results : ResultLists]}
    \cup {Pending("verifyOrThrow", a) : a \in [results : ResultLists]}

UnitInit ==
  /\ chatStream = IdleChat
  /\ llmCalls = <<>>
  /\ pool = IdlePool
  /\ call \in UnitCalls
  /\ config = [sql |-> TRUE, rag |-> TRUE]
  /\ pc = "unit"
  /\ events = <<>>
  /\ attempt = 0
  /\ plan = Null
  /\ policyResults = <<>>
  /\ approvedActions = <<>>
  /\ idx = 1
  /\ toolCall = Null
  /\ executionResults = <<>>
  /\ calls = <<>>
  /\ verifierReport = Null
  /\ tokens = 0
  /\ nextId = 1
  /\ cancelled = FALSE
  /\ audit = [down |-> FALSE, writes |-> <<>>]

\* The call returns (or throws): `out` is what the caller gets.
Return(out) ==
  /\ call' = [call EXCEPT !.done = TRUE, !.out = out]
  /\ UNCHANGED <<chatStream, llmCalls, pool, audit, cancelled, config, pc, events, attempt, plan, policyResults, approvedActions,
                 idx, toolCall, executionResults, calls, verifierReport, tokens, nextId>>

Calling(op) == pc = "unit" /\ call.op = op /\ ~call.done

CallValidate ==
  /\ Calling("validate")
  /\ Return(validate(call.args.cfg, call.args.sql))

CallValidateActions ==
  /\ Calling("validateActions")
  /\ Return([threw |-> validateActionsThrows(call.args.cfg, call.args.actions)])

CallValidatePlan ==
  /\ Calling("validatePlan")
  /\ Return(validatePlan(call.args.cfg, call.args.plan))

CallSafeParse ==
  /\ Calling("safeParse")
  /\ Return([success |-> PlanSchemaAccepts(call.args.raw)])

\* Variant of CallVerify: a failed tool withdraws the approval.
CallVerifyStrict ==
  /\ Calling("verify")
  /\ Return([verify(call.args.results) EXCEPT
               !.approved = \A i \in 1..Len(verify(call.args.results).checks) :
                              verify(call.args.results).checks[i].supported])

CallVerify ==
  /\ Calling("verify")
  /\ Return(verify(call.args.results))

CallVerifyOrThrow ==
  /\ Calling("verifyOrThrow")
  /\ Return(verifyOrThrow(call.args.results))

UnitNext ==
  \/ CallValidate
  \/ CallValidateActions
  \/ CallValidatePlan
  \/ CallSafeParse
  \/ CallVerify
  \/ CallVerifyOrThrow

UnitSpec == UnitInit /\ [][UnitNext]_vars

(***************************************************************************)
(* PostgresConnector.query, statement by statement, on a pool of           *)
(* connections: up to MaxQueries calls, one after the other.               *)
(***************************************************************************)
\* The call query(params), about to acquire a connection.
QueryCall(args, count) ==
  [op |-> "query", args |-> args, done |-> FALSE, out |-> Null, at |-> "connect",
   client |-> 0, failed |-> FALSE, count |-> count]

QueryArgs == [sql : {SqlPlain, SqlLimitSmall}, maxRows : {0, DispatchDefaultMaxRows}]

PoolInit ==
  /\ pool = IdlePool
  /\ chatStream = IdleChat
  /\ llmCalls = <<>>
  /\ call \in {QueryCall(a, 1) : a \in QueryArgs}
  /\ config = [sql |-> TRUE, rag |-> FALSE]
  /\ pc = "pool"
  /\ events = <<>>
  /\ attempt = 0
  /\ plan = Null
  /\ policyResults = <<>>
  /\ approvedActions = <<>>
  /\ idx = 1
  /\ toolCall = Null
  /\ executionResults = <<>>
  /\ calls = <<>>
  /\ verifierReport = Null
  /\ tokens = 0
  /\ nextId = 1
  /\ cancelled = FALSE
  /\ audit = [down |-> FALSE, writes |-> <<>>]

Querying(at) == pc = "pool" /\ call.op = "query" /\ ~call.done /\ call.at = at

PoolFrame ==
  UNCHANGED <<chatStream, llmCalls, audit, cancelled, config, pc, events, attempt, plan, policyResults,
              approvedActions, idx, toolCall, executionResults, calls, verifierReport,
              tokens, nextId>>

\* const client = await this.pool.connect(): an idle connection is handed out.
PoolConnect ==
  /\ Querying("connect")
  /\ \E c \in 1..PoolSize :
       /\ ~pool[c].held
       /\ pool' = [pool EXCEPT ![c].held = TRUE, ![c].acquired = @ + 1]
       /\ call' = [call EXCEPT !.client = c, !.at = "set_timeout"]
  /\ PoolFrame

\* await client.query(statement) inside the try block: the statement takes
\* effect and the call goes on at `next`, or it rejects and the catch block
\* runs.
ClientQuery(setting, value, next) ==
  /\ \E ok \in BOOLEAN :
       IF ok
       THEN /\ pool' = [pool EXCEPT ![call.client][setting] = value]
            /\ call' = [call EXCEPT !.at = next]
       ELSE /\ pool' = pool
            /\ call' = [call EXCEPT !.at = "catch"]
  /\ PoolFrame

\* await client.query('SET statement_timeout = 30000')
SetStatementTimeout ==
  /\ Querying("set_timeout")
  /\ ClientQuery("statement_timeout", StatementTimeoutMs, "set_read_only")

\* await client.query('SET default_transaction_read_only = ON')
SetReadOnly ==
  /\ Querying("set_read_only")
  /\ ClientQuery("read_only", "ON", "run")

\* The SqlQueryResult built from the n rows the database returned.
QueryResult(n, maxRows) ==
  [threw |-> FALSE, columns |-> "columns", rows |-> MinOf(n, maxRows),
   rowCount |-> MinOf(n, maxRows), checksum |-> "checksum", truncated |-> n > maxRows]

\* const result = await client.query(sql), and the return statement.
RunSql ==
  /\ Querying("run")
  /\ \/ \E n \in 0..MaxConnRows :
          call' = [call EXCEPT !.at = "finally", !.out = QueryResult(n, call.args.maxRows)]
     \/ call' = [call EXCEPT !.at = "catch"]
  /\ pool' = pool
  /\ PoolFrame

\* catch (err): the error is wrapped in a ToolExecutionError and thrown.
CatchAndThrow ==
  /\ Querying("catch")
  /\ call' = [call EXCEPT !.at = "finally", !.failed = TRUE,
                          !.out = [threw |-> TRUE, code |-> "TOOL_EXECUTION_ERROR"]]
  /\ pool' = pool
  /\ PoolFrame

\* finally: RESET default_transaction_read_only in its own try; a failure
\* of the RESET is swallowed.
ResetReadOnly ==
  /\ Querying("finally")
  /\ \E ok \in BOOLEAN :
       pool' = IF ok THEN [pool EXCEPT ![call.client].read_only = "default"] ELSE pool
  /\ call' = [call EXCEPT !.at = "release"]
  /\ PoolFrame

\* finally: client.release(), after which query returns or throws.
Release ==
  /\ Querying("release")
  /\ pool' = [pool EXCEPT ![call.client].held = FALSE, ![call.client].released = @ + 1]
  /\ call' = [call EXCEPT !.at = "returned", !.done = TRUE]
  /\ PoolFrame

\* The connector is called again.
QueryAgain ==
  /\ pc = "pool"
  /\ call.done
  /\ call.count < MaxQueries
  /\ \E a \in QueryArgs : call' = QueryCall(a, call.count + 1)
  /\ pool' = pool
  /\ PoolFrame

PoolNext ==
  \/ PoolConnect
  \/ SetStatementTimeout
  \/ SetReadOnly
  \/ RunSql
  \/ CatchAndThrow
  \/ ResetReadOnly
  \/ Release
  \/ QueryAgain

PoolSpec == PoolInit /\ [][PoolNext]_vars

(***************************************************************************)
(* useChatStream: the client of the chat stream endpoint. sendMessage      *)
(* posts the message, reads the response body and hands every SSE event it *)
(* parsed to handleEvent.                                                  *)
(***************************************************************************)
\* The events the response may carry, as (eventType, JSON.parse(data)).
SseEvents ==
  {[event |-> "meta", data |-> [threadId |-> JStr("thread-1")]]}
    \cup {[event |-> "status", data |-> [stage |-> stage]] :
            stage \in {"planning", "policy", "toolsRunning", "verifying", "answering",
                       "queued"}}
    \cup {[event |-> "plan", data |-> [intent |-> JStr("answer the question")]],
          [event |-> "tool_call_start",
           data |-> [tool |-> JStr("sql.query"), args |-> JStr("args")]],
          [event |-> "tool_call_end",
           data |-> [status |-> JStr("success"), durationMs |-> JNum(5),
                     rowCount |-> JNum(1), error |-> Undefined]],
          [event |-> "verification", data |-> [approved |-> JStr("true")]],
          [event |-> "token", data |-> [token |-> JStr("Hel")]],
          [event |-> "token", data |-> [token |-> Undefined]],
          [event |-> "answer", data |-> [content |-> JStr("Hello")]],
          [event |-> "answer", data |-> [content |-> JStr("")]],
          [event |-> "error", data |-> [message |-> JStr("Policy blocked")]],
          [event |-> "done", data |-> [t |-> "object"]],
          [event |-> "ping", data |-> [t |-> "object"]]}

\* handleEvent, case 'status': the status shown for a stage; a stage the
\* handler does not know leaves the status as it is.
StageStatus(status, stage) ==
  CASE stage = "planning" -> "planning"
    [] stage = "policy" -> "planning"
    [] stage = "toolsRunning" -> "toolsRunning"
    [] stage = "verifying" -> "verifying"
    [] stage = "answering" -> "answering"
    [] OTHER -> status

\* handleEvent, case 'tool_call_end': the last tool call gets the outcome.
EndLast(toolCalls, d) ==
  IF toolCalls = <<>> THEN toolCalls
  ELSE [toolCalls EXCEPT ![Len(toolCalls)] =
          [tool |-> @.tool, args |-> @.args, status |-> d.status,
           durationMs |-> d.durationMs, rowCount |-> d.rowCount, error |-> d.error]]

\* JavaScript truthiness of a content value.
Truthy(v) == v # Undefined /\ v # Null /\ v # JStr("")

\* handleEvent(eventType, data): the refs after the event was handled.
handleEvent(chat, eventType, d) ==
  CASE eventType = "meta" -> [chat EXCEPT !.threadId = d.threadId]
    [] eventType = "status" ->
         [chat EXCEPT !.status = StageStatus(chat.status, d.stage)]
    [] eventType = "plan" -> [chat EXCEPT !.evidence.plan = d]
    [] eventType = "tool_call_start" ->
         [chat EXCEPT !.evidence.toolCalls = Append(@, [tool |-> d.tool, args |-> d.args])]
    [] eventType = "tool_call_end" ->
         [chat EXCEPT !.evidence.toolCalls = EndLast(@, d)]
    [] eventType = "verification" -> [chat EXCEPT !.evidence.verification = d]
    [] eventType = "token" ->
         [chat EXCEPT !.streamedContent =
                        IF d.token = Undefined THEN @ ELSE Append(@, d.token.v)]
    [] eventType = "answer" ->
         [chat EXCEPT !.evidence.answer = d,
                      !.streamedContent = IF Truthy(d.content) THEN <<d.content.v>> ELSE @]
    [] eventType = "error" -> [chat EXCEPT !.error = d.message, !.status = "error"]
    [] eventType = "done" -> [chat EXCEPT !.status = "done"]
    [] OTHER -> chat

ChatInit ==
  /\ chatStream = IdleChat
  /\ pool = IdlePool
  /\ llmCalls = <<>>
  /\ call = Null
  /\ config = [sql |-> TRUE, rag |-> TRUE]
  /\ pc = "chat"
  /\ events = <<>>
  /\ attempt = 0
  /\ plan = Null
  /\ policyResults = <<>>
  /\ approvedActions = <<>>
  /\ idx = 1
  /\ toolCall = Null
  /\ executionResults = <<>>
  /\ calls = <<>>
  /\ verifierReport = Null
  /\ tokens = 0
  /\ nextId = 1
  /\ cancelled = FALSE
  /\ audit = [down |-> FALSE, writes |-> <<>>]

ChatAt(at) == pc = "chat" /\ chatStream.at = at

ChatFrame ==
  UNCHANGED <<llmCalls, pool, audit, call, cancelled, config, pc, events, attempt, plan,
              policyResults, approvedActions, idx, toolCall, executionResults, calls,
              verifierReport, tokens, nextId>>

\* sendMessage is called: the refs are reset (threadId is kept) and the
\* request is sent.
SendMessage ==
  /\ ChatAt("idle") \/ ChatAt("returned")
  /\ chatStream' = [IdleChat EXCEPT !.status = "typing", !.threadId = chatStream.threadId,
                                    !.at = "fetch"]
  /\ ChatFrame

\* The catch block of sendMessage.
Caught(message) ==
  chatStream' = [chatStream EXCEPT !.error = JStr(message), !.status = "error",
                                   !.at = "returned"]

\* fetch rejects, or the response is not ok or has no body.
FetchFails ==
  /\ ChatAt("fetch")
  /\ \E message \in {"Failed to fetch", "Request failed: "} : Caught(message)
  /\ ChatFrame

\* The response is ok: its body is read.
FetchReturns ==
  /\ ChatAt("fetch")
  /\ chatStream' = [chatStream EXCEPT !.at = "read"]
  /\ ChatFrame

\* The loop over the lines read reaches the data line of an event:
\* handleEvent(eventType, JSON.parse(data)).
ReadEvent ==
  /\ ChatAt("read")
  /\ Len(chatStream.handled) < MaxSseEvents
  /\ \E e \in SseEvents :
       chatStream' = [handleEvent(chatStream, e.event, e.data)
                        EXCEPT !.handled = Append(@, e.event)]
  /\ ChatFrame

\* reader.read() rejects: the connection broke.
ReadFails ==
  /\ ChatAt("read")
  /\ Caught("network error")
  /\ ChatFrame

\* reader.read() reports done: the loop is left.
StreamEnds ==
  /\ ChatAt("read")
  /\ chatStream' = [chatStream EXCEPT
                      !.status = IF chatStream.status # "error" THEN "done" ELSE @,
                      !.at = "returned"]
  /\ ChatFrame

\* reset()
ResetChat ==
  /\ ChatAt("returned")
  /\ chatStream' = IdleChat
  /\ ChatFrame

ChatNext ==
  \/ SendMessage
  \/ FetchFails
  \/ FetchReturns
  \/ ReadEvent
  \/ ReadFails
  \/ StreamEnds
  \/ ResetChat

ChatSpec == ChatInit /\ [][ChatNext]_vars

(***************************************************************************)
(* Properties                                                              *)
(***************************************************************************)
Count(tag) == Cardinality({i \in 1..Len(events) : events[i].event = tag})
Has(tag) == \E i \in 1..Len(events) : events[i].event = tag
HasStatus(stage) ==
  \E i \in 1..Len(events) : events[i].event = "status" /\ events[i].data.stage = stage
HasErrorAt(stage) ==
  \E i \in 1..Len(events) : events[i].event = "error" /\ events[i].data.stage = stage

\* C1: every event sequence of Pipeline.stream holds done at most once and
\* only as its last event, and the generator has returned exactly when done
\* has been emitted.
C1_DoneOnceAndFinal ==
  /\ Count("done") <= 1
  /\ Has("done") => events[Len(events)].event = "done"
  /\ pc = "closed" <=> Has("done")

\* C1 witness: a run closed after a failure of the answer stage that
\* followed a tool call.
C1_Witness ==
  /\ pc = "closed"
  /\ HasErrorAt("answering")
  /\ Has("tool_call_end")
  /\ events[Len(events)].event = "done"

\* The stage an event belongs to, numbered in pipeline order.
StageRank(e) ==
  CASE e.event = "meta" -> 0
    [] e.event = "status" /\ e.data.stage = "planning" -> 1
    [] e.event = "plan" -> 2
    [] e.event = "status" /\ e.data.stage = "policy" -> 3
    [] e.event = "status" /\ e.data.stage = "toolsRunning" -> 4
    [] e.event \in {"tool_call_start", "tool_call_end"} -> 5
    [] e.event = "status" /\ e.data.stage = "verifying" -> 6
    [] e.event = "verification" -> 7
    [] e.event = "status" /\ e.data.stage = "answering" -> 8
    [] e.event = "token" -> 9
    [] e.event = "answer" -> 10
    [] e.event = "done" -> 11
    [] OTHER -> 12
RepeatableRanks == {5, 9}
FullRunRanks == {0, 1, 2, 3, 4, 5, 6, 7, 8, 10, 11}
NonErrorEvents == SelectSeq(events, LAMBDA e : e.event # "error")
InStageOrder(ranks) ==
  \A i \in 1..(Len(ranks) - 1) :
    /\ ranks[i] <= ranks[i + 1]
    /\ ranks[i] = ranks[i + 1] => ranks[i] \in RepeatableRanks
RanksOf(evs) == [i \in 1..Len(evs) |-> StageRank(evs[i])]

\* C2: the events other than error appear in stage order (meta, planning
\* status, plan, policy status, tool stage, verifying status, verification,
\* answering status, tokens, answer, done): none of an earlier stage follows
\* one of a later stage, only tool events and tokens repeat, and a run that
\* closes without error and without clarification has gone through every stage.
C2_StageOrder ==
  \E ranks \in {RanksOf(NonErrorEvents)} :
    /\ InStageOrder(ranks)
    /\ (pc = "closed" /\ ~Has("error") /\ plan # Null /\ ~plan.needsClarification)
         => FullRunRanks \subseteq {ranks[i] : i \in 1..Len(ranks)}

\* C2 witness: a closed run without failure that ran two tools and streamed
\* a token.
C2_Witness ==
  /\ pc = "closed"
  /\ ~Has("error")
  /\ Count("tool_call_start") = 2
  /\ Has("token")
  /\ Has("answer")

ToolEvents == SelectSeq(events, LAMBDA e : e.event \in {"tool_call_start", "tool_call_end"})

PairsInPlanOrder(te) ==
  \A k \in 1..Len(te) :
    /\ te[k].event = IF k % 2 = 1 THEN "tool_call_start" ELSE "tool_call_end"
    /\ te[k].data.tool = approvedActions[(k + 1) \div 2].action.tool

\* C3: the tool events are one tool_call_start / tool_call_end pair per
\* approved action, in Plan order: they alternate start, end, the k-th pair
\* names the tool of the k-th approved action, each start is directly
\* followed by its end, and all pairs are there once verification starts.
C3_ToolCallPairs ==
  /\ \E te \in {ToolEvents} :
       /\ Len(te) <= 2 * Len(approvedActions)
       /\ PairsInPlanOrder(te)
       /\ HasStatus("verifying") => Len(te) = 2 * Len(approvedActions)
  /\ \A i \in 1..(Len(events) - 1) :
       events[i].event = "tool_call_start" => events[i + 1].event = "tool_call_end"
  /\ approvedActions # <<>>
       => /\ approvedActions = Approved(policyResults)
          /\ Len(policyResults) = Len(plan.actions)
          /\ \A i \in 1..Len(policyResults) : policyResults[i].action = plan.actions[i]

\* C3 witness: two approved actions of different tools, the first failed,
\* both pairs emitted.
C3_Witness ==
  /\ Len(ToolEvents) = 4
  /\ ToolEvents[1].data.tool # ToolEvents[3].data.tool
  /\ ToolEvents[2].data.status = "error"
  /\ HasStatus("verifying")

AllFailed(results) ==
  results # <<>> /\ \A i \in 1..Len(results) : IsFailed(results[i])

\* C4: when every dispatched tool failed (at least one attempted), the run
\* ends with verification approved = false, then an error event carrying
\* VERIFICATION_ERROR, then done, and never enters the answer stage.
C4_AllFailedIsFatal ==
  (pc = "closed" /\ AllFailed(executionResults))
    => /\ Len(events) >= 3
       /\ events[Len(events) - 2].event = "verification"
       /\ ~events[Len(events) - 2].data.approved
       /\ events[Len(events) - 1].event = "error"
       /\ events[Len(events) - 1].data.message = "VERIFICATION_ERROR"
       /\ ~HasStatus("answering")
       /\ ~Has("token")
       /\ ~Has("answer")

ResultIds(results) ==
  {results[i].toolResult.id : i \in {j \in 1..Len(results) : results[j].toolResult # Null}}
CitedIds(answer) == {answer.citations[i].evidenceId : i \in 1..Len(answer.citations)}

\* C5: every citation of an emitted answer names the id of a ToolResult
\* produced in this run.
C5_CitationsAreRunEvidence ==
  \A i \in 1..Len(events) :
    events[i].event = "answer"
      => CitedIds(events[i].data) \subseteq ResultIds(executionResults)

\* A text that is one SELECT statement ending in its only LIMIT clause, an
\* integer literal of at most maxRows.
BoundedSingleSelect(toks, maxRows) ==
  /\ Len(toks) >= 3
  /\ IsKw(toks[1], "SELECT")
  /\ \A i \in 1..Len(toks) : ~IsWord(toks[i], ";")
  /\ Cardinality({i \in 1..Len(toks) : IsKw(toks[i], "SELECT")}) = 1
  /\ Cardinality({i \in 1..Len(toks) : IsKw(toks[i], "LIMIT")}) = 1
  /\ IsKw(toks[Len(toks) - 1], "LIMIT")
  /\ toks[Len(toks)].k = "int"
  /\ toks[Len(toks)].n <= maxRows

\* C6: every SQL text handed to SqlConnector.query is a single SELECT with
\* exactly one LIMIT clause, an integer literal of at most maxRows.
C6_ConnectorSqlIsBounded ==
  \A c \in 1..Len(calls) :
    calls[c].tool = "sql.query"
      => BoundedSingleSelect(NoWs(calls[c].params.sql),
                             PolicyEngineConfig(config).sqlPolicy.maxRows)

StartEvents == SelectSeq(events, LAMBDA e : e.event = "tool_call_start")
StartsShowSanitizedArgs(starts) ==
  \A k \in 1..Len(starts) : starts[k].data.args = approvedActions[k].sanitizedArgs

\* C7: only approved actions are dispatched, with exactly the sanitizedArgs
\* of their decision: the arguments of every connector call (the SQL text
\* of a sql.query included), of every tool_call_start event and of every
\* ToolCall are the sanitizedArgs of an approved PolicyResult.
C7_DispatchedAsApproved ==
  /\ \A k \in 1..Len(approvedActions) :
       \E i \in 1..Len(policyResults) :
         policyResults[i] = approvedActions[k] /\ policyResults[i].approved
  /\ Len(executionResults) <= Len(approvedActions)
  /\ \A k \in 1..Len(executionResults) :
       /\ executionResults[k].toolCall.toolName = approvedActions[k].action.tool
       /\ executionResults[k].toolCall.toolArgs = approvedActions[k].sanitizedArgs
  /\ \A c \in 1..Len(calls) :
       \E k \in 1..Len(approvedActions) :
         /\ approvedActions[k].approved
         /\ calls[c].tool = approvedActions[k].action.tool
         /\ calls[c].args = approvedActions[k].sanitizedArgs
         /\ calls[c].tool = "sql.query"
              => calls[c].params.sql = approvedActions[k].sanitizedArgs.sql.v
  /\ StartsShowSanitizedArgs(StartEvents)

\* C7 witness: a connector was called with SQL the policy rewrote, in a run
\* whose plan also held a blocked action.
C7_Witness ==
  /\ \E c \in 1..Len(calls) :
       /\ calls[c].tool = "sql.query"
       /\ \E k \in 1..Len(approvedActions) :
            /\ calls[c].args = approvedActions[k].sanitizedArgs
            /\ approvedActions[k].sanitizedArgs # approvedActions[k].action.args
  /\ \E i \in 1..Len(policyResults) : ~policyResults[i].approved
  /\ Has("tool_call_end")

EarlyFailure == HasErrorAt("planning") \/ HasErrorAt("policy")

\* C8: when the planner fails after its retries, the Tool Gate (or the
\* validation of an action) rejects the plan, or no decision is approved,
\* the run emits exactly one error event followed by done, calls no
\* connector, and emits no tool_call_start, verification, token or answer;
\* tool execution starts only when at least one decision is approved.
C8_FailFast ==
  /\ EarlyFailure
       => /\ Count("error") = 1
          /\ calls = <<>>
          /\ executionResults = <<>>
          /\ ~Has("tool_call_start")
          /\ ~Has("verification")
          /\ ~Has("token")
          /\ ~Has("answer")
          /\ pc \in {"end", "closed"}
          /\ pc = "closed"
               => /\ events[Len(events) - 1].event = "error"
                  /\ events[Len(events)].event = "done"
  /\ (attempt > PlannerMaxRetries /\ pc # "planner") => HasErrorAt("planning")
  /\ (pc \in {"end", "closed"} /\ plan # Null /\ ~plan.needsClarification
        /\ \A i \in 1..Len(policyResults) : ~policyResults[i].approved)
       => HasErrorAt("policy")
  /\ (Has("tool_call_start") \/ calls # <<>> \/ executionResults # <<>>)
       => \E i \in 1..Len(policyResults) : policyResults[i].approved

\* C8 witness: a closed run whose two actions were both blocked.
C8_Witness ==
  /\ pc = "closed"
  /\ Len(policyResults) = 2
  /\ \A i \in 1..Len(policyResults) : ~policyResults[i].approved
  /\ HasErrorAt("policy")

\* The SQL gate rejects the sql.query action a: SqlPolicy.validate throws
\* on its text or returns it invalid.
SqlRejects(outcome) == outcome.threw \/ ~outcome.valid
RejectedSql(cfg, a) ==
  /\ a.tool = "sql.query"
  /\ a.args.sql.t = "string"
  /\ SqlRejects(validate(cfg.sqlPolicy, a.args.sql.v))
ApprovedAction(decision) == ~decision.threw /\ decision.approved

\* C9: in a plan of several actions that passes the tool gate, a sql.query
\* action the SQL gate rejects (policy violation or parse failure) becomes
\* a PolicyResult with approved = false and errors, and every other action
\* the policy approves is still executed.
C9_SqlRejectionIsADecision ==
  (pc = "closed" /\ plan # Null /\ ~plan.needsClarification
     /\ ~validateActionsThrows(PolicyEngineConfig(config).toolGate, plan.actions))
    => \A i, j \in 1..Len(plan.actions) :
         (/\ RejectedSql(PolicyEngineConfig(config), plan.actions[i])
          /\ ApprovedAction(validateAction(PolicyEngineConfig(config), plan.actions[j])))
           => /\ Len(policyResults) = Len(plan.actions)
              /\ ~policyResults[i].approved
              /\ policyResults[i].errors # <<>>
              /\ \E k \in 1..Len(executionResults) :
                   /\ approvedActions[k].action = plan.actions[j]
                   /\ executionResults[k].toolCall.toolName = plan.actions[j].tool

TerminalResult(r) ==
  /\ r.toolCall.status \in {"success", "error"}
  /\ r.toolCall.status = "success" <=> r.toolResult # Null
  /\ r.toolCall.status = "error" => r.toolCall.errorMessage # Null

\* C10: executing the approved actions never raises: every action gets one
\* ToolExecutionResult, in Plan order, with terminal status success or
\* error, a failed action does not stop the later ones, and no error event
\* comes from the tool stage.
C10_OneTerminalResultPerAction ==
  /\ Len(executionResults) <= Len(approvedActions)
  /\ \A k \in 1..Len(executionResults) :
       /\ TerminalResult(executionResults[k])
       /\ executionResults[k].toolCall.toolName = approvedActions[k].action.tool
  /\ pc \in {"exec", "await"} => Len(executionResults) = idx - 1
  /\ HasStatus("verifying") => Len(executionResults) = Len(approvedActions)
  /\ \A i \in 1..Len(events) :
       events[i].event = "error" => events[i].data.stage \in {"planning", "policy", "answering"}
  /\ Has("tool_call_start") => ~EarlyFailure

\* C10 witness: the first of two actions failed and the second succeeded.
C10_Witness ==
  /\ Len(executionResults) = 2
  /\ executionResults[1].toolCall.status = "error"
  /\ executionResults[2].toolCall.status = "success"
  /\ HasStatus("verifying")

\* Some ToolResult of the run belongs to the ToolCall with this id.
HasResultFor(results, id) ==
  \E j \in 1..Len(results) :
    IF results[j].toolResult = Null THEN FALSE ELSE results[j].toolResult.toolCallId = id
OwnResult(r) ==
  IF r.toolResult = Null THEN FALSE ELSE r.toolResult.toolCallId = r.toolCall.id

\* C11: for every ToolExecutionResult of the runtime, status is success
\* exactly when a ToolResult is present and carries the id of its ToolCall
\* (and exactly when the run holds a ToolResult for that id); a call with
\* status error has no ToolResult and has its errorMessage set.
C11_SuccessIffOwnResult ==
  \A k \in 1..Len(executionResults) :
    /\ executionResults[k].toolCall.status = "success" <=> OwnResult(executionResults[k])
    /\ executionResults[k].toolCall.status = "success"
         <=> HasResultFor(executionResults, executionResults[k].toolCall.id)
    /\ executionResults[k].toolCall.status = "error"
         => /\ executionResults[k].toolResult = Null
            /\ executionResults[k].toolCall.errorMessage # Null

\* C11 witness: a run with a successful and a failed call.
C11_Witness ==
  /\ Len(executionResults) = 2
  /\ executionResults[1].toolCall.status = "success"
  /\ executionResults[1].toolResult.toolCallId = executionResults[1].toolCall.id
  /\ executionResults[2].toolCall.status = "error"

TimedOut(r) == r.toolCall.errorMessage = JStr("Tool timed out")

\* C12: a connector call cut by the timeout ends with status error, the
\* timeout message and no ToolResult, its tool_call_end reports the error,
\* and the actions after it are still executed: once the tool stage is over
\* every approved action has a result.
C12_TimeoutIsAnErrorResult ==
  /\ \A k \in 1..Len(executionResults) :
       TimedOut(executionResults[k])
         => /\ executionResults[k].toolCall.status = "error"
            /\ executionResults[k].toolResult = Null
            /\ k < Len(approvedActions)
                 => \/ Len(executionResults) > k
                    \/ pc \in {"loop", "exec", "await"} /\ idx = k + 1
  /\ pc = "await" => toolCall.status = "running"

\* C12 witness: the first call timed out and the second one succeeded.
C12_Witness ==
  /\ Len(executionResults) = 2
  /\ TimedOut(executionResults[1])
  /\ executionResults[2].toolCall.status = "success"
  /\ Len(calls) = 2

Clarifying == IF plan = Null THEN FALSE ELSE plan.needsClarification
QuestionOrDefault(p) ==
  IF p.clarificationQuestion # Null THEN [content |-> p.clarificationQuestion.v, citations |-> <<>>]
  ELSE [content |-> "Could you clarify your question?", citations |-> <<>>]

GeneratePlanCalls == attempt + (IF plan = Null THEN 0 ELSE 1)
SchemaValid(p) ==
  /\ p.intent # ""
  /\ Len(p.actions) >= 1
  /\ \A i \in 1..Len(p.actions) : p.actions[i].tool # ""

\* C14: Planner.plan makes at most maxRetries + 1 calls to generatePlan; a
\* plan it returns passes the Plan schema and is returned once; it ends
\* with PlannerError exactly when every one of the maxRetries + 1 attempts
\* failed, and then no plan is returned.
C14_PlannerBoundedAndValidated ==
  /\ GeneratePlanCalls <= PlannerMaxRetries + 1
  /\ plan # Null => SchemaValid(plan)
  /\ Count("plan") <= 1
  /\ Has("plan") <=> plan # Null
  /\ HasErrorAt("planning") => (plan = Null /\ attempt = PlannerMaxRetries + 1)
  /\ pc \notin {"start", "planning", "planner", "aborted"}
       => (plan # Null \/ HasErrorAt("planning"))

\* C14 witness: the plan was returned by the last allowed attempt.
C14_Witness ==
  /\ plan # Null
  /\ attempt = PlannerMaxRetries
  /\ GeneratePlanCalls = PlannerMaxRetries + 1
  /\ Has("plan")

\* C15: a run cancelled at any stage ends its event sequence with an error
\* event whose cause is "cancelled" followed by done, and emits no result of
\* a tool call after the cancellation.
C15_CancelEmitsErrorThenDone ==
  (cancelled /\ pc = "aborted")
    => /\ Len(events) >= 2
       /\ events[Len(events) - 1].event = "error"
       /\ events[Len(events) - 1].data.message = "cancelled"
       /\ events[Len(events)].event = "done"

\* The operation `op` was called on its own and has returned or thrown.
Called(op) == "op" \in DOMAIN call /\ call.op = op /\ call.done

CoverageSupported(results) ==
  \E i \in 1..Len(results) :
    results[i].toolCall.status = "success" /\ results[i].toolResult # Null
EvidenceChecksSupported(checks) ==
  \A i \in 1..Len(checks) : "evidenceType" \in DOMAIN checks[i] => checks[i].supported
EverySuccessHasRows(results) ==
  \A i \in 1..Len(results) :
    results[i].toolCall.status = "success" => HasRows(results[i].toolResult)

\* C16: the report of Verifier.verify has approved = true exactly when the
\* coverage check is supported (some result has status success and a
\* ToolResult) and every check carrying an evidenceType is supported; failed
\* tools do not withdraw the approval earned by tools that succeeded with
\* data; summary is set exactly when approved = false.
C16_ApprovalRule ==
  Called("verify")
    => /\ call.out.approved
            <=> (CoverageSupported(call.args.results)
                 /\ EvidenceChecksSupported(call.out.checks))
       /\ call.out.checks[1].supported <=> CoverageSupported(call.args.results)
       /\ (CoverageSupported(call.args.results) /\ EverySuccessHasRows(call.args.results))
            => call.out.approved
       /\ (call.out.summary # Null) <=> ~call.out.approved

\* C16 witness: a report approved although one of the two tools failed.
C16_Witness ==
  /\ Called("verify")
  /\ call.out.approved
  /\ Len(call.args.results) = 2
  /\ \E i \in 1..2 : call.args.results[i].toolCall.status = "error"
  /\ \E i \in 1..2 : call.args.results[i].toolCall.status = "success"

EveryResultFailed(results) ==
  \A i \in 1..Len(results) :
    results[i].toolCall.status = "error" \/ results[i].toolResult = Null

ToolsOf(actions) == {actions[i].tool : i \in 1..Len(actions)}
AllowedSet(cfg) == {cfg.allowedTools[i] : i \in 1..Len(cfg.allowedTools)}

\* The plan is over the call budget, or names a tool outside a non-empty
\* allowlist.
GateBlocks(cfg, actions) ==
  \/ Len(actions) > cfg.maxToolCallsPerPlan
  \/ AllowedSet(cfg) # {} /\ ~(ToolsOf(actions) \subseteq AllowedSet(cfg))

\* C18: ToolGate.validateActions throws PolicyBlockedError exactly when the
\* plan has more actions than maxToolCallsPerPlan or the allowlist is
\* non-empty and some action's tool is outside it (an empty allowlist
\* accepts every tool name); PolicyEngine.validatePlan consults the gate
\* before it validates the SQL of any action, so a plan the gate blocks
\* ends in POLICY_BLOCKED whatever its SQL is.
C18_GateBeforeSql ==
  /\ Called("validateActions")
       => (call.out.threw <=> GateBlocks(call.args.cfg, call.args.actions))
  /\ Called("validatePlan")
       => /\ GateBlocks(call.args.cfg.toolGate, call.args.plan.actions)
               <=> (call.out.threw /\ call.out.code = "POLICY_BLOCKED")
          /\ (call.out.threw /\ call.out.code = "SQL_SAFETY_ERROR")
               => \E i \in 1..Len(call.args.plan.actions) :
                    /\ call.args.plan.actions[i].tool = "sql.query"
                    /\ call.args.plan.actions[i].args.sql.t = "string"
                    /\ ParseThrows(call.args.plan.actions[i].args.sql.v)

\* C18 witness: a plan whose first action carries SQL that does not parse
\* and whose second names a tool outside the allowlist is blocked by the
\* gate.
C18_Witness ==
  /\ Called("validatePlan")
  /\ Len(call.args.plan.actions) = 2
  /\ call.args.plan.actions[1] = SqlAction(SqlGarbage)
  /\ call.args.plan.actions[2].tool = "shell.exec"
  /\ call.out.threw
  /\ call.out.code = "POLICY_BLOCKED"

\* The number of statements of the text: its non-empty segments between
\* semicolons outside parentheses.
StatementCount(sql) == Len(SplitStatements(NoWs(sql)))
FirstKeyword(sql) == Upper(NoWs(sql)[1].s)

\* C19: SqlPolicy.validate returns valid = true exactly when the text parses
\* to one statement, that statement is a SELECT and the error list is
\* empty; a text of several statements is rejected with the "Multiple
\* statements" error, a statement other than SELECT with the error that
\* names SELECT; a text that does not parse yields no result at all.
C19_ValidIffSingleSelect ==
  Called("validate")
    => /\ call.out.threw <=> ParseThrows(call.args.sql)
       /\ ~call.out.threw
            => /\ call.out.valid
                    <=> /\ StatementCount(call.args.sql) = 1
                        /\ FirstKeyword(call.args.sql) = "SELECT"
                        /\ call.out.errors = <<>>
               /\ StatementCount(call.args.sql) > 1
                    => /\ ~call.out.valid
                       /\ call.out.errors =
                            <<Err("Multiple statements are not allowed. Only single SELECT queries are permitted.", "")>>
               /\ (StatementCount(call.args.sql) = 1 /\ FirstKeyword(call.args.sql) # "SELECT")
                    => /\ ~call.out.valid
                       /\ Len(call.out.errors) = 1
                       /\ call.out.errors[1].msg = "Only SELECT queries are allowed. Received:"

\* C19 witness: two SELECT statements separated by a semicolon are
\* rejected for being several.
C19_Witness ==
  /\ Called("validate")
  /\ call.args.sql = SqlMulti
  /\ ~call.out.threw
  /\ ~call.out.valid
  /\ call.out.errors[1].msg
       = "Multiple statements are not allowed. Only single SELECT queries are permitted."

\* The SELECT text ends in a LIMIT clause, outside parentheses, whose
\* operand is the integer literal n.
EndsInLimit(text, n) ==
  /\ Len(text) >= 2
  /\ IsKw(text[Len(text) - 1], "LIMIT")
  /\ Depth(text, Len(text) - 1) = 0
  /\ text[Len(text)] = N(n)
  /\ TopLevel(text, "LIMIT") = {Len(text) - 1}

LimitKeywords(text) == Cardinality({i \in 1..Len(text) : IsKw(text[i], "LIMIT")})

\* The literal of the LIMIT clause of the single SELECT `sql`, when it has
\* one.
HasLiteralLimit(sql) ==
  /\ StatementCount(sql) = 1
  /\ FirstKeyword(sql) = "SELECT"
  /\ \E n \in 0..(5 * DefaultMaxRows) : EndsInLimit(SplitStatements(NoWs(sql))[1], n)
LiteralLimit(sql) == SplitStatements(NoWs(sql))[1][Len(SplitStatements(NoWs(sql))[1])].n

\* C20: for a SELECT with a literal integer LIMIT n, SqlPolicy.validate
\* returns effectiveLimit = min(n, maxRows) and a sanitizedSql whose LIMIT
\* clause carries that effectiveLimit, rewritten in place with no second
\* LIMIT appended (LIMIT 0 gives 0, LIMIT maxRows + 1 gives maxRows).
C20_LiteralLimitIsClamped ==
  (Called("validate") /\ ~call.out.threw /\ HasLiteralLimit(call.args.sql))
    => /\ call.out.effectiveLimit = MinOf(LiteralLimit(call.args.sql), call.args.cfg.maxRows)
       /\ EndsInLimit(NoWs(call.out.sanitizedSql), call.out.effectiveLimit)
       /\ LimitKeywords(call.out.sanitizedSql) = LimitKeywords(call.args.sql)

\* t is the text `sql` without the white space around it and without the
\* semicolon (and the white space in front of it) that ends it.
IsStrippedForm(sql, t) ==
  \E i, j \in 1..Len(sql) :
    /\ i <= j
    /\ t = SubSeq(sql, i, j)
    /\ sql[i] # WS
    /\ sql[j] # WS
    /\ ~IsWord(sql[j], ";")
    /\ \A k \in 1..(i - 1) : sql[k] = WS
    /\ \A k \in (j + 1)..Len(sql) : sql[k] = WS \/ IsWord(sql[k], ";")
    /\ Cardinality({k \in (j + 1)..Len(sql) : IsWord(sql[k], ";")}) <= 1

\* The single SELECT `sql` has no LIMIT clause of its own.
HasNoLimit(sql) ==
  /\ StatementCount(sql) = 1
  /\ FirstKeyword(sql) = "SELECT"
  /\ TopLevel(SplitStatements(NoWs(sql))[1], "LIMIT") = {}

\* C21: for a valid SELECT without a LIMIT clause, SqlPolicy.validate
\* returns the trimmed original, its trailing semicolon removed, followed by
\* LIMIT maxRows as sanitizedSql, and effectiveLimit = maxRows.
C21_LimitInjected ==
  (Called("validate") /\ ~call.out.threw /\ call.out.valid /\ HasNoLimit(call.args.sql))
    => /\ call.out.effectiveLimit = call.args.cfg.maxRows
       /\ Len(call.out.sanitizedSql) >= 2
       /\ SubSeq(call.out.sanitizedSql, Len(call.out.sanitizedSql) - 1,
                 Len(call.out.sanitizedSql))
            = <<W("LIMIT"), N(call.args.cfg.maxRows)>>
       /\ IsStrippedForm(call.args.sql,
                         SubSeq(call.out.sanitizedSql, 1, Len(call.out.sanitizedSql) - 2))

\* C21 witness: a padded SELECT ending in a semicolon got its LIMIT.
C21_Witness ==
  /\ Called("validate")
  /\ call.args.sql = SqlPadded
  /\ call.out.valid
  /\ call.out.sanitizedSql = SqlPlain \o <<W("LIMIT"), N(call.args.cfg.maxRows)>>

\* The names that follow a FROM keyword anywhere in the text, inside
\* parentheses or not: the base tables the text reads.
TablesRead(sql) ==
  {NoWs(sql)[i + 1].s : i \in {j \in 1..(Len(NoWs(sql)) - 1) :
                                 IsKw(NoWs(sql)[j], "FROM") /\ ~IsWord(NoWs(sql)[j + 1], "(")}}

Members(list) == {list[i] : i \in 1..Len(list)}

\* C22: with a non-empty allowedTables, SqlPolicy.validate rejects, with one
\* error per offending table, every SELECT that reads a base table outside
\* the allowlist, tables read only inside subqueries included;
\* referencedTables holds each table read once; with an empty allowedTables
\* no table is rejected.
C22_AllowlistCoversEveryTable ==
  (Called("validate") /\ ~call.out.threw /\ StatementCount(call.args.sql) = 1
     /\ FirstKeyword(call.args.sql) = "SELECT")
    => /\ Members(call.out.referencedTables) = TablesRead(call.args.sql)
       /\ Len(call.out.referencedTables) = Cardinality(TablesRead(call.args.sql))
       /\ call.args.cfg.allowedTables # <<>>
            => /\ call.out.valid
                    => TablesRead(call.args.sql) \subseteq Members(call.args.cfg.allowedTables)
               /\ Cardinality({i \in 1..Len(call.out.errors) :
                                 call.out.errors[i].msg = "Table is not in the allowlist"})
                    = Cardinality(TablesRead(call.args.sql)
                                    \ Members(call.args.cfg.allowedTables))
       /\ call.args.cfg.allowedTables = <<>>
            => \A i \in 1..Len(call.out.errors) :
                 call.out.errors[i].msg # "Table is not in the allowlist"

\* The SQL text names a function of the default blocklist, in any letter
\* case.
NamesForbiddenFunction(sql) ==
  \E k \in 1..Len(DefaultForbiddenFunctions) : TextIncludes(sql, DefaultForbiddenFunctions[k])

\* C23: a Pipeline built without a forbiddenFunctions option applies the
\* default blocklist: a sql.query action whose SQL names a default
\* forbidden function gets a decision with approved = false and is never
\* sent to the connector.
C23_DefaultBlocklistApplied ==
  /\ \A i \in 1..Len(policyResults) :
       (/\ policyResults[i].action.tool = "sql.query"
        /\ policyResults[i].action.args.sql.t = "string"
        /\ NamesForbiddenFunction(policyResults[i].action.args.sql.v))
         => ~policyResults[i].approved
  /\ \A c \in 1..Len(calls) :
       calls[c].tool = "sql.query" => ~NamesForbiddenFunction(calls[c].params.sql)

\* C24: the ToolResult of every successful sql.query call of a run holds at
\* most the configured maxRows rows, whatever the connector returned: the
\* maxRows passed to the connector is the configured ceiling and the rows
\* returned are cut to it.
C24_RowsWithinMaxRows ==
  /\ \A c \in 1..Len(calls) :
       calls[c].tool = "sql.query"
         => calls[c].params.maxRows = PolicyEngineConfig(config).sqlPolicy.maxRows
  /\ \A i \in 1..Len(executionResults) :
       (/\ executionResults[i].toolCall.toolName = "sql.query"
        /\ executionResults[i].toolCall.status = "success")
         => /\ executionResults[i].toolResult.data.rows
                 <= PolicyEngineConfig(config).sqlPolicy.maxRows
            /\ executionResults[i].toolResult.rowCount
                 <= PolicyEngineConfig(config).sqlPolicy.maxRows

\* AnswerSchema.safeParse(answer).success: a non-empty content and
\* citations with a positive index and a known evidence type.
AnswerSchemaAccepts(answer) ==
  /\ answer.content # ""
  /\ \A k \in 1..Len(answer.citations) :
       /\ answer.citations[k].index >= 1
       /\ answer.citations[k].evidenceType \in {"tool_result", "chunk"}

\* C25: the answer event of a run carries the value the LlmAdapter returned
\* only if that value satisfies the Answer schema; when it does not, the
\* run emits an error event of the answering stage in its place, then done.
C25_AnswerEventIsSchemaValid ==
  ~Clarifying
    => \A i \in 1..Len(events) :
         events[i].event = "answer" => AnswerSchemaAccepts(events[i].data)

\* The events that relay what the LlmAdapter returned.
AdapterEvents(evs) == SelectSeq(evs, LAMBDA e : e.event \in {"token", "answer"})

\* C26: two runs of Pipeline.stream with the same context, the same Plan
\* and the same connector and adapter outputs emit the same sequence of
\* events with the same payloads (durationMs and timestamps, which the
\* events of the model do not carry, set aside).
C26_SameInputsSameEvents ==
  (/\ Called("stream")
   /\ pc = "closed"
   /\ plan = call.args.plan
   /\ Outcomes(executionResults) = call.out.outcomes
   /\ AdapterEvents(events) = AdapterEvents(call.out.events))
    => events = call.out.events

PersistedEvent(table) == IF table = "tool_calls" THEN "tool_call_end" ELSE "answer"

\* C27: a failed audit write (the INSERT of a tool call or of the assistant
\* message) does not abort the response stream: the loop of the endpoint is
\* never left for it, every tool_call_end and answer event sent had its
\* write attempted, the events keep the order of the stages, and the
\* stream that returned ends with done, after every failed write.
C27_WriteFailureDoesNotAbort ==
  /\ pc # "aborted"
  /\ Len(audit.writes) = Count("tool_call_end") + Count("answer")
  /\ \A k \in 1..Len(audit.writes) :
       /\ audit.writes[k].at <= Len(events)
       /\ events[audit.writes[k].at].event = PersistedEvent(audit.writes[k].table)
  /\ pc = "closed"
       => /\ events[Len(events)].event = "done"
          /\ \A k \in 1..Len(audit.writes) : audit.writes[k].at < Len(events)
  /\ C2_StageOrder

\* C27 witness: the write of a tool call failed, and the run went on to its
\* verification, its answer and done.
C27_Witness ==
  /\ pc = "closed"
  /\ \E k \in 1..Len(audit.writes) :
       audit.writes[k].table = "tool_calls" /\ ~audit.writes[k].ok
  /\ Has("verification")
  /\ Has("answer")
  /\ events[Len(events)].event = "done"

\* The shape a Plan is to have: a clarification without actions, or at
\* least one action and no clarification.
ClarificationXorActions(p) ==
  \/ p.needsClarification /\ p.actions = <<>>
  \/ ~p.needsClarification /\ Len(p.actions) >= 1

\* C28: every Plan the Plan validator accepts is a clarification without
\* actions or has at least one action and needs no clarification; a plan
\* without actions and with needsClarification = false is rejected, a plan
\* with needsClarification = true and no action is accepted.
C28_AcceptedPlansAreWellShaped ==
  Called("safeParse")
    => /\ call.out.success => ClarificationXorActions(call.args.raw)
       /\ (~call.args.raw.needsClarification /\ call.args.raw.actions = <<>>)
            => ~call.out.success
       /\ (/\ call.args.raw.needsClarification
           /\ call.args.raw.actions = <<>>
           /\ call.args.raw.intent # "")
            => call.out.success

InFlight == {c \in 1..Len(calls) : ~calls[c].settled}

\* C29: a tool call that reaches its timeout has its connector call
\* cancelled: no connector call is in flight once its tool call has its
\* result, and so at most one connector call of a run is in flight at any
\* time.
C29_OneConnectorCallInFlight ==
  /\ Cardinality(InFlight) <= 1
  /\ pc # "await" => InFlight = {}

\* The LIMIT clause of the single SELECT `sql` has an operand that is more
\* than one integer literal.
HasExpressionLimit(sql) ==
  /\ StatementCount(sql) = 1
  /\ FirstKeyword(sql) = "SELECT"
  /\ \E i \in TopLevel(SplitStatements(NoWs(sql))[1], "LIMIT") :
       i + 1 < Len(SplitStatements(NoWs(sql))[1])

\* C30: for a SELECT whose LIMIT expression is not an integer literal,
\* SqlPolicy.validate returns effectiveLimit = maxRows and a sanitizedSql
\* that ends in an appended LIMIT maxRows.
C30_ExpressionLimitIsBounded ==
  (Called("validate") /\ ~call.out.threw /\ HasExpressionLimit(call.args.sql))
    => /\ call.out.effectiveLimit = call.args.cfg.maxRows
       /\ EndsInLimit(NoWs(call.out.sanitizedSql), call.args.cfg.maxRows)

\* The place of the check of the successful result i: after the coverage
\* check, in the order of the successful results.
DataCheckOf(results, i) ==
  1 + Cardinality({j \in 1..i : results[j].toolCall.status = "success"
                                  /\ results[j].toolResult # Null})
NoRows(tr) == "rowCount" \notin DOMAIN tr \/ tr.rowCount = 0
NoDataSuggestions(report) ==
  Cardinality({k \in 1..Len(report.suggestedActions) :
                 report.suggestedActions[k].text = "returned no data"})

\* C31: for every successful result, the "returned data" check of
\* Verifier.verify is supported exactly when rowCount > 0 or data is a
\* non-empty object; it carries evidenceId = ToolResult.id and evidenceType
\* = tool_result; when rowCount is 0 or missing its reason is "No rows
\* returned" and one suggested action is appended for the result.
C31_ReturnedDataCheck ==
  Called("verify")
    => /\ \A i \in 1..Len(call.args.results) :
            (call.args.results[i].toolCall.status = "success"
               /\ call.args.results[i].toolResult # Null)
              => /\ DataCheckOf(call.args.results, i) <= Len(call.out.checks)
                 /\ call.out.checks[DataCheckOf(call.args.results, i)].claim
                      = [text |-> "Tool returned data",
                         tool |-> call.args.results[i].toolCall.toolName]
                 /\ call.out.checks[DataCheckOf(call.args.results, i)].supported
                      <=> (~NoRows(call.args.results[i].toolResult)
                           \/ DOMAIN call.args.results[i].toolResult.data # {})
                 /\ call.out.checks[DataCheckOf(call.args.results, i)].evidenceId
                      = call.args.results[i].toolResult.id
                 /\ call.out.checks[DataCheckOf(call.args.results, i)].evidenceType
                      = "tool_result"
                 /\ NoRows(call.args.results[i].toolResult)
                      => call.out.checks[DataCheckOf(call.args.results, i)].reason
                           = [text |-> "No rows returned"]
       /\ NoDataSuggestions(call.out)
            = Cardinality({i \in 1..Len(call.args.results) :
                             /\ call.args.results[i].toolCall.status = "success"
                             /\ call.args.results[i].toolResult # Null
                             /\ NoRows(call.args.results[i].toolResult)})

\* C31 witness: a successful result without rowCount and with data, after a
\* failed one: its check is supported, and says that no rows were returned.
C31_Witness ==
  /\ Called("verify")
  /\ Len(call.args.results) = 2
  /\ call.args.results[1].toolCall.status = "error"
  /\ call.args.results[2].toolCall.status = "success"
  /\ "rowCount" \notin DOMAIN call.args.results[2].toolResult
  /\ call.out.checks[2].supported
  /\ call.out.checks[2].reason = [text |-> "No rows returned"]
  /\ NoDataSuggestions(call.out) = 1

\* The place of the check of the failed result i: after the checks of the
\* successful results, in the order of the failed results.
FailedCheckOf(results, i) ==
  1 + Cardinality({j \in 1..Len(results) : IsSuccessful(results[j])})
    + Cardinality({j \in 1..i : IsFailed(results[j])})
FailedSuggestions(report) ==
  Cardinality({k \in 1..Len(report.suggestedActions) :
                 report.suggestedActions[k].text = "failed"})

ForbiddenHits(cfg, sql) ==
  {k \in 1..Len(cfg.forbiddenFunctions) :
     \E i \in 1..Len(sql) :
       /\ sql[i].k = "word"
       /\ WordIncludes(Lower(sql[i].s), Lower(cfg.forbiddenFunctions[k]))}
ForbiddenErrorsFor(errors, fn) ==
  {e \in 1..Len(errors) : errors[e] = Err("Forbidden function detected", fn)}

C34_NoSettingLeaksToThePool ==
  /\ Querying("run")
       => /\ pool[call.client].statement_timeout = StatementTimeoutMs
          /\ pool[call.client].read_only = "ON"
  /\ \A c \in 1..PoolSize :
       /\ pool[c].released = pool[c].acquired - (IF pool[c].held THEN 1 ELSE 0)
       /\ ~pool[c].held
            => /\ pool[c].statement_timeout = IdleConnection.statement_timeout
               /\ pool[c].read_only = IdleConnection.read_only

\* The successful results, and the place, among the ToolResults, of the one
\* of the result i.
SuccessesOf(results) == {i \in 1..Len(results) : results[i].toolCall.status = "success"}
ToolResultAt(results, i) ==
  Cardinality({j \in 1..i : results[j].toolCall.status = "success"})

\* The request lists, one by one, the ToolResults of the successful results.
ReceivesSuccesses(request, results) ==
  /\ Len(request.toolResults) = Cardinality(SuccessesOf(results))
  /\ \A i \in SuccessesOf(results) :
       /\ request.toolResults[ToolResultAt(results, i)] = results[i].toolResult
       /\ request.toolResults[ToolResultAt(results, i)].toolCallId = results[i].toolCall.id

\* C35: in stream and in run, LlmAdapter.streamAnswer and generateAnswer
\* are called only once
\* every approved action has its result, with a terminal status, and the
\* verifier has produced its report; the toolResults they receive are the
\* ToolResults of the run's successful tool calls, one each, in the order
\* of the approved actions, which is the order of the Plan.
C35_AnswerAfterToolsAndVerifier ==
  /\ Called("run")
       => \A k \in 1..Len(call.out.llmCalls) :
            /\ call.out.llmCalls[k].method = "generateAnswer"
            /\ Len(call.out.executionResults) = Len(approvedActions)
            /\ \A i \in 1..Len(call.out.executionResults) :
                 /\ call.out.executionResults[i].toolCall.status \in {"success", "error"}
                 /\ call.out.executionResults[i].toolCall.toolName
                      = approvedActions[i].action.tool
            /\ call.out.llmCalls[k].verifierReport.approved
                 = (SuccessesOf(call.out.executionResults) # {})
            /\ ReceivesSuccesses(call.out.llmCalls[k], call.out.executionResults)
  /\ llmCalls # <<>>
    => /\ Len(executionResults) = Len(approvedActions)
       /\ toolCall = Null
       /\ \A i \in 1..Len(executionResults) :
            /\ executionResults[i].toolCall.status \in {"success", "error"}
            /\ executionResults[i].toolCall.toolName = approvedActions[i].action.tool
            /\ executionResults[i].toolCall.toolArgs = approvedActions[i].sanitizedArgs
       /\ approvedActions = SelectSeq(policyResults, LAMBDA r : r.approved)
       /\ Len(policyResults) = Len(plan.actions)
       /\ \A i \in 1..Len(policyResults) : policyResults[i].action = plan.actions[i]
       /\ verifierReport # Null
       /\ Has("verification")
       /\ \A k \in 1..Len(llmCalls) :
            /\ llmCalls[k].method \in {"streamAnswer", "generateAnswer"}
            /\ llmCalls[k].verifierReport = verifierReport
            /\ ReceivesSuccesses(llmCalls[k], executionResults)

\* C35 witness: stream called generateAnswer after streamAnswer, and run
\* called generateAnswer, with the ToolResults of two successful calls.
C35_Witness ==
  /\ Called("run")
  /\ Len(call.out.llmCalls) = 1
  /\ Len(call.out.llmCalls[1].toolResults) = 2
  /\ Len(llmCalls) = 2
  /\ llmCalls[2].method = "generateAnswer"
  /\ Len(llmCalls[2].toolResults) = 2
  /\ executionResults[1].toolCall.status = "success"
  /\ executionResults[2].toolCall.status = "success"

\* C37: Pipeline.run and Pipeline.stream, for the same context, planner
\* output and connector behaviour, dispatch the same connector calls with
\* the same arguments in the same order, obtain verifier reports with the
\* same approved value, and run returns an Answer exactly when stream emits
\* an answer event.
C37_RunAndStreamAgree ==
  Called("run")
    => /\ Len(call.out.calls) = Len(calls)
       /\ \A c \in 1..Len(calls) :
            /\ call.out.calls[c].tool = calls[c].tool
            /\ call.out.calls[c].args = calls[c].args
            /\ call.out.calls[c].params = calls[c].params
       /\ (verifierReport # Null /\ ~call.out.threw)
            => call.out.result.verifierReport.approved = verifierReport.approved
       /\ ~call.out.threw <=> Has("answer")

\* C36: when every call of the LlmAdapter returns or throws, every run of
\* stream emits done in the end, also when a connector call never
\* completes: the tool call awaited gets its result (at the latest through
\* its timeout), the run goes on to the next action and to the verification.
C36_EveryRunEmitsDone ==
  /\ <>(pc = "closed" /\ Has("done"))
  /\ (pc = "await") ~> (pc = "loop" /\ toolCall = Null)
  /\ (pc = "loop") ~> (pc = "verify" \/ Has("verification"))

\* C36 witness: a run that emitted done after the connector call of its
\* first action timed out and the one of its second action was made.
C36_Witness ==
  /\ pc = "closed"
  /\ Has("done")
  /\ Has("verification")
  /\ Len(executionResults) = 2
  /\ executionResults[1].toolCall.errorMessage = JStr("Tool timed out")
  /\ Len(calls) = 2
  /\ ~calls[1].settled

SomeCallSucceeded == \E i \in 1..Len(executionResults) : IsSuccessful(executionResults[i])
ZeroRowSuccess(r) == IsSuccessful(r) /\ r.toolResult.rowCount = 0

\* C38: for the results the Tool Runtime produces, the report of the
\* Verifier is approved exactly when at least one tool call of the run
\* succeeded; a successful call that returned zero rows does not make the
\* report unapproved.
C38_ApprovedIffSomeCallSucceeded ==
  verifierReport # Null
    => /\ verifierReport.approved <=> SomeCallSucceeded
       /\ \A i \in 1..Len(verifierReport.checks) :
            ("evidenceType" \in DOMAIN verifierReport.checks[i])
              => verifierReport.checks[i].supported

\* C38 witness: an approved report over a rag.search that succeeded with no
\* chunks and a call that failed.
C38_Witness ==
  /\ verifierReport # Null
  /\ verifierReport.approved
  /\ Len(executionResults) = 2
  /\ executionResults[1].toolCall.toolName = "rag.search"
  /\ ZeroRowSuccess(executionResults[1])
  /\ IsFailed(executionResults[2])
  /\ Len(verifierReport.suggestedActions) = 2
HandledError == \E i \in 1..Len(chatStream.handled) : chatStream.handled[i] = "error"

\* C39: in useChatStream, once handleEvent has handled an error event
\* during a call of sendMessage, the status is error when sendMessage
\* returns: no later done event and no end of the stream sets it to done.
C39_ErrorStatusIsKept ==
  (ChatAt("returned") /\ HandledError) => chatStream.status = "error"
====
